---------------------------- MODULE Spec2Model ----------------------------
(***************************************************************************)
(* A model of remote-diff-tool's concurrent collection and comparison     *)
(* pipeline:                                                               *)
(*   - RunCollection / collectFromServer / cleanupRemoteFiles (package    *)
(*     collect), one worker goroutine per server under a weighted         *)
(*     semaphore, all writing the shared Manifest;                         *)
(*   - Manifest.AddFile / Manifest.Save (package config);                  *)
(*   - ExtractTarGz (package util) and the filepath functions it uses;     *)
(*   - GenerateCollectionScript (package util) and the script it writes,  *)
(*     as bash runs it on the remote host;                                 *)
(*   - RunAnalysis / getFilesToCompare / compareSingleFile (package       *)
(*     analyze);                                                           *)
(*   - Connect (package sshutil).                                          *)
(* The variable mode says which of these a behaviour runs; the variables  *)
(* of the others keep their initial values.                               *)
(***************************************************************************)
EXTENDS Integers, Sequences, FiniteSets, TLC

\* ------------------------------------------------------------------ bounds
\* Number of configured servers (cfg.Servers), named 1..NumServers in
\* configured order.
NumServers == 2
\* Largest limiter capacity (maxConcurrency) tried; every 1..MaxConcurrency is.
MaxConcurrency == 2

Servers == 1..NumServers

\* A server list that names every host once: worker s collects host s.
DistinctServers == [s \in Servers |-> s]

\* ------------------------------------------------------------- the state
VARIABLES
    mode,          \* what a behaviour runs: "collect" (RunCollection),
                   \* "analyze" (RunAnalysis), "compare" (one call of
                   \* compareSingleFile), "several" (one call of it for
                   \* NumCompared servers), "extract" (ExtractTarGz), "walk"
                   \* (the walk of one extraction root), "connect"
                   \* (sshutil.Connect), "locks" (goroutines sharing the
                   \* manifest) or "script" (the collection script)
    maxConc,       \* maxConcurrency, the capacity of the weighted semaphore
                   \* (0 until the entry point has read it)
    \* --- RunCollection
    cfgServers,    \* cfg.Servers: per worker goroutine, the host it was
                   \* started for
    pc,            \* per server: position of its worker goroutine
    stage,         \* per server: last pipeline stage collectFromServer reached
    failedAt,      \* per server: the step whose failure was met ("" if none)
    cleanups,      \* per server: number of cleanupRemoteFiles calls made
    cleanupErr,    \* per server: whether its cleanupRemoteFiles call failed
    resources,     \* per server: what its collectFromServer call holds:
                   \* the open sshClient, the local temporary script and
                   \* archive files, and its deferred calls, last first
    localFiles,    \* per host: the files known to be in its local
                   \* collection directory files-<host>
    semHeld,       \* servers between sem.Acquire and sem.Release
    manifest,      \* the shared in-memory Manifest (its FileInfo entries)
    errChan,       \* servers whose worker sent an error on errChan
    mainPc,        \* position of RunCollection's own goroutine
    success,       \* RunCollection's success flag / return value
    disk,          \* the persisted manifest.json
    saves,         \* number of Manifest.Save calls made
    \* --- RunAnalysis
    saveDiffs,     \* the saveDiffs flag
    filesToCompare,\* result of getFilesToCompare
    taskPc,        \* per relative path: position of its comparison goroutine
    taskHeld,      \* paths whose task is between sem.Acquire and sem.Release
    resultChan,    \* the buffered result channel, in send order: of each
                   \* result, what the range loop reads (Sent)
    chanClosed,    \* close(resultChan) has run
    tally,         \* totalCompared, totalIdentical, totalDifferent, anyDiffFound
    reported,      \* per path: number of its results the aggregator consumed
    errorsLogged,  \* number of per-file errors the aggregator has logged
    diffFiles,     \* the diff files written so far: name, path, server pair
    anaPc,         \* position of RunAnalysis's own goroutine
    ret,           \* what RunAnalysis returned: [differs, err]
    localDirs,     \* per server: what os.Stat found for files-<server>
                   \* ("unread" until RunAnalysis has looked)
    \* --- compareSingleFile on its own
    localCopies,   \* per server: the local copy of the path compared last
    lastResult,    \* the fileComparisonResult sent last, with what was done
    \* --- ExtractTarGz
    dest,          \* the destination directory, a cleaned path
    archive,       \* the tar stream: its entries in order
    consumed,      \* number of headers read so far
    created,       \* the directories and files created so far
    partial,       \* the created files whose data was not copied in full
    extractErr,    \* the error ExtractTarGz returned ("" for nil)
    exPc,          \* position in ExtractTarGz
    \* --- the walk of one extraction root (collectFromServer, steps 7-8)
    rootFiles,     \* the files under the root, in the order WalkDir visits
    visited,       \* number of files the callback has handled
    walkFailed,    \* TRUE once WalkDir has returned an error (logged)
    walkPc,        \* position after extraction
    walkRet,       \* what collectFromServer returned ("" for nil)
    \* --- sshutil.Connect
    keyFile,       \* what keyPath holds
    keyPassphrase, \* the passphrase handed to Connect ("" for none)
    attempts,      \* the outcome of every connection attempt so far
    waited,        \* seconds slept between attempts
    connPc,        \* position in Connect
    connRet,       \* what Connect returned
    \* --- Manifest.Mu and the goroutines that use the manifest
    Mu,            \* the RWMutex: who holds it for writing, who for reading
    calls,         \* per worker: the AddFile calls it makes, in order
    completed,     \* per worker: number of its AddFile calls that returned
    seen,          \* per worker inside AddFile: the map state it found
    wPc,           \* per worker: "idle" or "in" (inside AddFile's section)
    rPc,           \* per reader: "idle", "in" (inside its section) or "done"
    \* --- the collection script on the remote host
    filePaths,     \* cfg.Files, in configured order
    dirPaths,      \* cfg.Dirs, in configured order
    remoteFs,      \* what each configured path is on the remote host
    script,        \* the statements GenerateCollectionScript wrote
    line,          \* the statement bash runs next
    staged,        \* the entries of the backup directory
    exitStatus     \* "running", or how the script ended: "ok" or "failed"

collectVars == <<cfgServers, pc, stage, failedAt, cleanups, cleanupErr,
                 resources, localFiles, semHeld, errChan, mainPc, success, saves>>

analysisVars == <<localDirs, saveDiffs, filesToCompare, taskPc, taskHeld, resultChan,
                  chanClosed, tally, reported, errorsLogged, diffFiles,
                  anaPc, ret>>

compareVars == <<localCopies, lastResult>>

extractVars == <<dest, archive, consumed, created, partial, extractErr, exPc>>

walkVars == <<rootFiles, visited, walkFailed, walkPc, walkRet>>

connVars == <<keyFile, keyPassphrase, attempts, waited, connPc, connRet>>

scriptVars == <<filePaths, dirPaths, remoteFs, script, line, staged, exitStatus>>

lockVars == <<Mu, calls, completed, seen, wPc, rPc>>

vars == <<mode, maxConc, manifest, disk, collectVars, analysisVars, compareVars,
          extractVars,
          walkVars,
          connVars,
          lockVars,
          scriptVars>>

\* ------------------------------------------------------ Manifest (config)
\* A relative path is the sequence of its segments: <<"etc", "hosts">> is
\* etc/hosts.  Two paths are the same string exactly when they are the same
\* sequence, since no segment holds a separator.
\*
\* FilesByServer, map[server]map[relativePath]FileInfo, is kept as the set of
\* its entries: at most one per (server, path).  FileInfo.Path repeats the key.
FileInfo(server, relativePath, checksum, fileError) ==
    [server |-> server, path |-> relativePath,
     checksum |-> checksum, error |-> fileError]

\* NewManifest: an empty map.
NewManifest == {}

\* Manifest.AddFile: upsert under the write lock; creates the server's
\* sub-map on first use.
AddFile(m, server, relativePath, checksum, fileError) ==
    {e \in m : ~(e.server = server /\ e.path = relativePath)}
        \cup {FileInfo(server, relativePath, checksum, fileError)}

\* The persisted manifest.json: absent, a complete document, or a document cut
\* short by a failed write.
NoFile == [kind |-> "none", files |-> {}]
Truncated == [kind |-> "truncated", files |-> {}]
Document(m) == [kind |-> "manifest", files |-> m]

\* A manifest persisted by an earlier, fully successful run.
PriorManifest == Document(AddFile(NewManifest, 1, <<"etc", "old.conf">>, "c0", ""))


\* Manifest.Save: MkdirAll, MarshalIndent, then os.WriteFile straight onto
\* manifest.json.  Returns <<err, file>>: a failed MkdirAll or a WriteFile that
\* cannot open the file leaves the old file; a WriteFile that fails after
\* opening (O_TRUNC) leaves a truncated document.
SaveOutcomes(m, old) ==
    { <<FALSE, Document(m)>>, <<TRUE, old>>, <<TRUE, Truncated>> }

\* --------------------------------------------------- collectFromServer
\* The stages of one server's pipeline, in the order the function runs them.
StageOrder == <<"Connected", "ScriptUploaded", "ScriptExecuted",
                "ArchiveDownloaded", "Extracted", "Fingerprinted", "CleanedUp">>

StageIndex(s) == CHOOSE i \in 1..Len(StageOrder) : StageOrder[i] = s

\* StageAfter with the download step left out of the table.
StageAfterSkipping(s) ==
    IF s = "None" THEN StageOrder[1]
    ELSE IF s = "ScriptExecuted" THEN "Extracted"
    ELSE StageOrder[StageIndex(s) + 1]

\* The stage a successful step leads to from stage s ("None": nothing done yet).
StageAfter(s) ==
    IF s = "None" THEN StageOrder[1] ELSE StageOrder[StageIndex(s) + 1]

\* ------------------------------------ the WalkDir callback (step 7)
\* A file under the extraction root: the segments of its directory, its base
\* name cut into chunks, whether it can be opened and read, and the SHA-256 of
\* its content.  The chunks are cut where a marker suffix can begin, so a
\* suffix test on the string is a test on the last chunks of the name.
File(dir, base, readable, sum) ==
    [dir |-> dir, base |-> base, readable |-> readable, sum |-> sum]

RECURSIVE Flatten(_)
Flatten(chunks) ==
    IF chunks = <<>> THEN "" ELSE Head(chunks) \o Flatten(Tail(chunks))

\* filepath.Rel(serverOutputDir, path): the segments of the relative path.
RelativePath(dir, base) == dir \o <<Flatten(base)>>

\* strings.HasSuffix and strings.TrimSuffix.
HasSuffix(name, suffix) ==
    /\ Len(name) >= Len(suffix)
    /\ SubSeq(name, Len(name) - Len(suffix) + 1, Len(name)) = suffix

TrimSuffix(name, suffix) ==
    IF HasSuffix(name, suffix)
    THEN SubSeq(name, 1, Len(name) - Len(suffix))
    ELSE name

\* GenerateCollectionScript: for a configured file that is missing it runs
\* touch <staged path>.MISSING, for a missing directory
\* touch <staged path>DIRECTORY.MISSING.  Both are empty files.
FileMarkerSuffix == <<".MISSING">>
DirMarkerSuffix == <<"DIRECTORY", ".MISSING">>

MarkerFor(kind, dir, base) ==
    File(dir,
         base \o (IF kind = "dir" THEN DirMarkerSuffix ELSE FileMarkerSuffix),
         TRUE, "e3b0")

IsMarker(base) ==
    HasSuffix(base, FileMarkerSuffix) \/ HasSuffix(base, DirMarkerSuffix)

\* originalPath: ".MISSING" is trimmed first, "DIRECTORY.MISSING" from what
\* is left.
OriginalPath(f) ==
    RelativePath(f.dir,
        TrimSuffix(TrimSuffix(f.base, FileMarkerSuffix), DirMarkerSuffix))

\* util.CalculateSHA256: the hex digest, or the wrapped open or read error.
CalculateSHA256(f) ==
    IF f.readable
    THEN [checksum |-> f.sum, err |-> ""]
    ELSE [checksum |-> "", err |-> "failed to open file for checksum"]

\* A callback that hands AddFile the digest and the error together.
WalkCallbackBothFields(m, server, f) ==
    LET cs == CalculateSHA256(f) IN
    IF IsMarker(f.base)
    THEN AddFile(m, server, OriginalPath(f), f.sum, "Missing on remote")
    ELSE AddFile(m, server, RelativePath(f.dir, f.base), f.sum, cs.err)

\* The callback for one regular file: a marker becomes an error-record under
\* originalPath; any other file is fingerprinted and recorded under its own
\* relative path, with the checksum error when there is one.  The callback
\* returns nil in all three cases.
WalkCallback(m, server, f) ==
    LET cs == CalculateSHA256(f) IN
    IF IsMarker(f.base)
    THEN AddFile(m, server, OriginalPath(f), "", "Missing on remote")
    ELSE IF cs.err # ""
         THEN AddFile(m, server, RelativePath(f.dir, f.base), "", cs.err)
         ELSE AddFile(m, server, RelativePath(f.dir, f.base), cs.checksum, "")

\* The relative path the collection script stages on every server, and what
\* the walk of the extraction root can find there.
CollectPath == <<"etc", "app.conf">>
FileKinds == {"file", "unreadable", "marker"}

FileOfKind(kind) ==
    CASE kind = "marker"     -> MarkerFor("file", <<"etc">>, <<"app.conf">>)
      [] kind = "unreadable" -> File(<<"etc">>, <<"app.conf">>, FALSE, "c1")
      [] OTHER               -> File(<<"etc">>, <<"app.conf">>, TRUE, "c1")

\* The files-<server> directory as the run that persisted the document left
\* it: one readable file per fingerprint record of that server.
PriorFiles(file, server) ==
    { File(SubSeq(r.path, 1, Len(r.path) - 1), <<r.path[Len(r.path)]>>, TRUE,
           r.checksum) :
        r \in {x \in file.files : x.server = server /\ x.checksum # ""} }

\* cleanupRemoteFiles: one RunCommand; its error goes back to the caller, who
\* only logs it.
cleanupRemoteFiles(s, failed) ==
    /\ cleanups' = [cleanups EXCEPT ![s] = @ + 1]
    /\ cleanupErr' = [cleanupErr EXCEPT ![s] = failed]

\* A collectFromServer call that holds nothing and has deferred nothing.
NoResources ==
    [sshClient |-> FALSE, localScriptPath |-> FALSE, localTarPath |-> FALSE,
     deferred |-> <<>>]

\* defer: the call is pushed on the function's stack of deferred calls.
Defer(r, call) == [r EXCEPT !.deferred = <<call>> \o @]

\* A function that leaves the local archive to be removed by nobody.
DeferRemoveTarNever(r) == r

\* defer os.Remove(localTarPath), right after DownloadFile has returned and
\* before its error is looked at.
DeferRemoveTar(r) == Defer(r, "os.Remove(localTarPath)")

\* What the successful step taken at a stage leaves behind: Connect the open
\* client and its deferred Close, step 2 the temporary script and its
\* deferred removal, the download the local archive and its deferred removal.
Acquired(r, at) ==
    CASE at = "None" ->
            Defer([r EXCEPT !.sshClient = TRUE], "sshClient.Close()")
      [] at = "Connected" ->
            Defer([r EXCEPT !.localScriptPath = TRUE],
                  "os.Remove(localScriptPath)")
      [] at = "ScriptExecuted" ->
            DeferRemoveTar([r EXCEPT !.localTarPath = TRUE])
      [] OTHER -> r

\* What the call holds when a step fails.  os.CreateTemp failed with nothing
\* created, or WriteString failed on the created file, whose removal is
\* deferred by then; the upload failed with the script file in place; a
\* failed DownloadFile leaves no local file (it removes a partial one), and
\* the removal of the archive is deferred all the same.
AtFailure(r, step) ==
    CASE step = "tempfile" -> {r, Acquired(r, "Connected")}
      [] step = "upload"   -> {Acquired(r, "Connected")}
      [] step = "download" -> {DeferRemoveTar(r)}
      [] OTHER             -> {r}

\* One deferred call runs.
RunCall(r, call) ==
    CASE call = "sshClient.Close()"          -> [r EXCEPT !.sshClient = FALSE]
      [] call = "os.Remove(localScriptPath)" -> [r EXCEPT !.localScriptPath = FALSE]
      [] call = "os.Remove(localTarPath)"    -> [r EXCEPT !.localTarPath = FALSE]

\* The function returns: its deferred calls run, the last deferred first.
RECURSIVE Return(_)
Return(r) ==
    IF r.deferred = <<>> THEN r
    ELSE Return(RunCall([r EXCEPT !.deferred = Tail(@)], Head(r.deferred)))

\* A step of collectFromServer succeeds and the pipeline moves on.
Advance(s) ==
    /\ stage' = [stage EXCEPT ![s] = StageAfter(stage[s])]
    /\ resources' = [resources EXCEPT ![s] = Acquired(@, stage[s])]
    /\ UNCHANGED failedAt

\* A step fails: collectFromServer returns the wrapped error.
Fail(s, step) ==
    /\ stage' = [stage EXCEPT ![s] = "Failed"]
    /\ failedAt' = [failedAt EXCEPT ![s] = step]
    /\ \E r \in AtFailure(resources[s], step) :
          resources' = [resources EXCEPT ![s] = Return(r)]
    /\ pc' = [pc EXCEPT ![s] = "returned"]

Running(s, at) == mode = "collect" /\ pc[s] = "running" /\ stage[s] = at

\* 1. sshutil.Connect.
Connect(s) ==
    /\ Running(s, "None")
    /\ \/ Advance(s) /\ UNCHANGED pc
       \/ Fail(s, "connect")
    /\ UNCHANGED <<scriptVars, analysisVars, compareVars,
                   lockVars, connVars, walkVars, extractVars, mode, maxConc,
                   cfgServers,
                   cleanups, cleanupErr, localFiles, semHeld, manifest,
                   errChan,
                   mainPc, success, disk, saves>>

\* 2. Write the script to a local temporary file and upload it.
UploadScript(s) ==
    /\ Running(s, "Connected")
    /\ \/ Advance(s) /\ UNCHANGED pc
       \/ \E step \in {"tempfile", "upload"} : Fail(s, step)
    /\ UNCHANGED <<scriptVars, analysisVars, compareVars,
                   lockVars, connVars, walkVars, extractVars, mode, maxConc,
                   cfgServers,
                   cleanups, cleanupErr, localFiles, semHeld, manifest,
                   errChan,
                   mainPc, success, disk, saves>>

\* 3.-4. chmod (its failure is only logged), then run the script; on failure
\* cleanupRemoteFiles is called before the error is returned.
RunScript(s) ==
    /\ Running(s, "ScriptUploaded")
    /\ \/ Advance(s) /\ UNCHANGED <<pc, cleanups, cleanupErr>>
       \/ Fail(s, "script") /\ \E failed \in BOOLEAN : cleanupRemoteFiles(s, failed)
    /\ UNCHANGED <<scriptVars, analysisVars, compareVars,
                   lockVars, connVars, walkVars, extractVars, mode, maxConc,
                   cfgServers,
                   localFiles, semHeld, manifest, errChan,
                   mainPc, success, disk, saves>>

\* 5. Download the tarball; on failure cleanupRemoteFiles is called first.
DownloadArchive(s) ==
    /\ Running(s, "ScriptExecuted")
    /\ \/ Advance(s) /\ UNCHANGED <<pc, cleanups, cleanupErr>>
       \/ Fail(s, "download") /\ \E failed \in BOOLEAN : cleanupRemoteFiles(s, failed)
    /\ UNCHANGED <<scriptVars, analysisVars, compareVars,
                   lockVars, connVars, walkVars, extractVars, mode, maxConc,
                   cfgServers,
                   localFiles, semHeld, manifest, errChan,
                   mainPc, success, disk, saves>>

\* 6. RemoveAll (failure logged), MkdirAll, os.Open, ExtractTarGz: each of the
\* last three returns its error at once.  RemoveAll has emptied the server's
\* directory by then: none of its earlier files is left.  What a successful
\* extraction has put there is settled when the walk looks at it.
ExtractArchive(s) ==
    /\ Running(s, "ArchiveDownloaded")
    /\ \/ Advance(s) /\ UNCHANGED pc
       \/ \E step \in {"mkdir", "open", "extract"} : Fail(s, step)
    /\ localFiles' = [localFiles EXCEPT ![cfgServers[s]] = {}]
    /\ UNCHANGED <<scriptVars, analysisVars, compareVars,
                   lockVars, connVars, walkVars, extractVars, mode, maxConc,
                   cfgServers,
                   cleanups, cleanupErr, semHeld, manifest, errChan,
                   mainPc, success, disk, saves>>

\* 7. WalkDir over the extraction root, one AddFile per regular file.  A walk
\* error is logged and the function goes on to the cleanup.
Fingerprint(s) ==
    /\ Running(s, "Extracted")
    /\ \/ /\ \E kind \in FileKinds :
                /\ manifest' =
                       WalkCallback(manifest, cfgServers[s], FileOfKind(kind))
                /\ localFiles' =
                       [localFiles EXCEPT ![cfgServers[s]] = {FileOfKind(kind)}]
          /\ Advance(s)
       \/ /\ UNCHANGED <<manifest, localFiles, resources>>
          /\ stage' = [stage EXCEPT ![s] = StageAfter(stage[s])]
          /\ failedAt' = [failedAt EXCEPT ![s] = "walk"]
    /\ UNCHANGED <<scriptVars, analysisVars, compareVars,
                   lockVars, connVars, walkVars, extractVars, mode, maxConc,
                   cfgServers,
                   pc, cleanups, cleanupErr, semHeld, errChan,
                   mainPc, success, disk, saves>>

\* 8. The final cleanupRemoteFiles; its error is logged and nil is returned.
RemoteCleanup(s) ==
    /\ Running(s, "Fingerprinted")
    /\ \E failed \in BOOLEAN :
          /\ cleanupRemoteFiles(s, failed)
          /\ failedAt' = IF failed THEN [failedAt EXCEPT ![s] = "cleanup"]
                         ELSE failedAt
    /\ stage' = [stage EXCEPT ![s] = StageAfter(stage[s])]
    /\ resources' = [resources EXCEPT ![s] = Return(@)]
    /\ pc' = [pc EXCEPT ![s] = "returned"]
    /\ UNCHANGED <<scriptVars, analysisVars, compareVars,
                   lockVars, connVars, walkVars, extractVars, mode, maxConc,
                   cfgServers,
                   localFiles, semHeld, manifest, errChan,
                   mainPc, success, disk, saves>>

\* ------------------------------------------------------- RunCollection
\* An Acquire that lets one task too many through.
CanAcquireOneMore(held) == Cardinality(held) <= maxConc

\* sem.Acquire(ctx, 1) returns when fewer than maxConcurrency permits are out.
\* With a capacity below one it waits for ctx.Done(), which context.Background()
\* never signals.
CanAcquire(held) == Cardinality(held) < maxConc

\* A Release that runs on the success path only (not deferred).
ReleaseOnSuccess(held, s) == IF stage[s] = "Failed" THEN held ELSE held \ {s}

\* The worker's deferred sem.Release(1).
ReleaseOnExit(held, s) == held \ {s}

\* A worker that also reports a failed remote cleanup as its error.
ReportErrorOrCleanupFailure(ch, s) ==
    IF stage[s] = "Failed" \/ cleanupErr[s] THEN ch \cup {s} ELSE ch

\* The error collectFromServer returned, if any, is sent on errChan.
ReportError(ch, s) == IF stage[s] = "Failed" THEN ch \cup {s} ELSE ch

\* A drain loop that never clears the success flag.
ErrorsIgnored(ch) == TRUE

\* The loop over errChan: any error clears the success flag.
AllSucceeded(ch) == ch = {}

\* The worker goroutine acquires the semaphore.  context.Background() is never
\* cancelled, so Acquire does not return an error.
Acquire(s) ==
    /\ mode = "collect"
    /\ pc[s] = "start"
    /\ CanAcquire(semHeld)
    /\ semHeld' = semHeld \cup {s}
    /\ pc' = [pc EXCEPT ![s] = "running"]
    /\ UNCHANGED <<scriptVars, analysisVars, compareVars,
                   lockVars, connVars, walkVars, extractVars, mode, maxConc,
                   cfgServers,
                   stage, failedAt, cleanups, cleanupErr, localFiles,
                   resources,
                   manifest,
                   errChan,
                   mainPc, success, disk, saves>>

\* collectFromServer has returned: report, then the deferred Release and Done.
WorkerExit(s) ==
    /\ mode = "collect"
    /\ pc[s] = "returned"
    /\ errChan' = ReportError(errChan, s)
    /\ semHeld' = ReleaseOnExit(semHeld, s)
    /\ pc' = [pc EXCEPT ![s] = "done"]
    /\ UNCHANGED <<scriptVars, analysisVars, compareVars,
                   lockVars, connVars, walkVars, extractVars, mode, maxConc,
                   cfgServers,
                   stage, failedAt, cleanups, cleanupErr, localFiles,
                   resources,
                   manifest,
                   mainPc, success, disk, saves>>

\* A wait that returns as soon as one worker has called Done.
WaitReturnsEarly(workers) == \E s \in Servers : workers[s] = "done"

\* wg.Wait(): Add(1) was called once per server before its goroutine was
\* started, so Wait returns when every worker's deferred Done has run.
WaitReturns(workers) == \A s \in Servers : workers[s] = "done"

\* wg.Wait returns once every worker is done; errChan is closed and drained.
WaitAndDrain ==
    /\ mode = "collect"
    /\ mainPc = "wait"
    /\ WaitReturns(pc)
    /\ success' = AllSucceeded(errChan)
    /\ mainPc' = "decide"
    /\ UNCHANGED <<scriptVars, analysisVars, compareVars,
                   lockVars, connVars, walkVars, extractVars, mode, maxConc,
                   cfgServers,
                   pc, stage, failedAt, cleanups, cleanupErr, localFiles,
                   resources,
                   semHeld,
                   manifest, errChan, disk, saves>>

\* if success { manifest.Save } else { warn }; return success.
SaveOrSkip ==
    /\ mode = "collect"
    /\ mainPc = "decide"
    /\ \/ /\ success
          /\ \E o \in SaveOutcomes(manifest, disk) :
                /\ disk' = o[2]
                /\ success' = ~o[1]
                /\ saves' = saves + 1
       \/ /\ ~success
          /\ UNCHANGED <<disk, success, saves>>
    /\ mainPc' = "done"
    /\ UNCHANGED <<scriptVars, analysisVars, compareVars,
                   lockVars, connVars, walkVars, extractVars, mode, maxConc,
                   cfgServers,
                   pc, stage, failedAt, cleanups, cleanupErr, localFiles,
                   resources,
                   semHeld,
                   manifest, errChan>>

CollectStep(s) ==
    \/ Acquire(s)
    \/ Connect(s)
    \/ UploadScript(s)
    \/ RunScript(s)
    \/ DownloadArchive(s)
    \/ ExtractArchive(s)
    \/ Fingerprint(s)
    \/ RemoteCleanup(s)
    \/ WorkerExit(s)

NextCollect ==
    \/ \E s \in Servers : CollectStep(s)
    \/ WaitAndDrain
    \/ SaveOrSkip

\* ------------------------- collectFromServer, steps 7 and 8, file by file
\* One host after a successful extraction: the walk of its extraction root,
\* the final remote cleanup and the return.
WalkServer == 1

\* What an extraction root can hold, in the lexical order WalkDir walks it:
\* etc/app.conf; etc/app.conf.MISSING, which is the marker of a missing
\* etc/app.conf or a file of that name copied from the configured directory
\* /etc of the server; the marker of a missing directory etc/nginx; and
\* var/data.bin.
Roots ==
    LET states == {"absent", "readable", "unreadable"}
        plain(state, dir, base, sum) ==
            IF state = "absent" THEN <<>>
            ELSE <<File(dir, base, state = "readable", sum)>>
        marker(present, kind, dir, base) ==
            IF present THEN <<MarkerFor(kind, dir, base)>> ELSE <<>>
        named(what) ==
            IF what = "copied"
            THEN <<File(<<"etc">>, <<"app.conf">> \o FileMarkerSuffix, TRUE, "c3")>>
            ELSE marker(what = "marker", "file", <<"etc">>, <<"app.conf">>)
    IN  {plain(conf, <<"etc">>, <<"app.conf">>, "c1")
         \o named(fm)
         \o marker(dm, "dir", <<"etc">>, <<"nginx">>)
         \o plain(data, <<"var">>, <<"data.bin">>, "c2") :
            conf \in states, fm \in {"absent", "marker", "copied"},
            dm \in BOOLEAN, data \in states}

\* WalkDir reads a directory when it enters it: the root and the first
\* directory before any file, a further directory where the next file lies
\* in another one.
EntersDirectory ==
    IF visited = 0 THEN TRUE
    ELSE /\ visited < Len(rootFiles)
         /\ rootFiles[visited + 1].dir # rootFiles[visited].dir

\* A callback that hands a checksum error back to WalkDir.
CallbackReturnsChecksumError(f) ==
    IF IsMarker(f.base) THEN "" ELSE CalculateSHA256(f).err

\* What the callback returns for a file ("" for nil): nil after a marker,
\* nil after a checksum error, nil after a fingerprint.
CallbackReturn(f) == ""

\* The callback runs for the next file; an error it returned would end the
\* walk.
WalkFile ==
    /\ mode = "walk"
    /\ walkPc = "walking"
    /\ visited < Len(rootFiles)
    /\ manifest' = WalkCallback(manifest, WalkServer, rootFiles[visited + 1])
    /\ visited' = visited + 1
    /\ IF CallbackReturn(rootFiles[visited + 1]) = ""
       THEN UNCHANGED <<walkFailed, walkPc>>
       ELSE walkFailed' = TRUE /\ walkPc' = "cleanup"
    /\ UNCHANGED <<scriptVars, collectVars, analysisVars, compareVars, connVars,
                   extractVars, lockVars, mode, maxConc, disk, rootFiles,
                   walkRet>>

\* WalkDir hands the callback the error of a directory it cannot read; the
\* callback returns it, the walk ends and collectFromServer logs the error.
WalkError ==
    /\ mode = "walk"
    /\ walkPc = "walking"
    /\ EntersDirectory
    /\ walkFailed' = TRUE
    /\ walkPc' = "cleanup"
    /\ UNCHANGED <<scriptVars, collectVars, analysisVars, compareVars, lockVars,
                   connVars, extractVars, mode,
                   maxConc, manifest, disk, rootFiles, visited, walkRet>>

\* WalkDir has returned, with nil after the last file or with the logged
\* error.  Step 8: the final cleanup, whose error is only logged, and
\* return nil.
WalkCleanup ==
    /\ mode = "walk"
    /\ \/ walkPc = "cleanup"
       \/ walkPc = "walking" /\ visited = Len(rootFiles)
    /\ \E failed \in BOOLEAN : cleanupRemoteFiles(WalkServer, failed)
    /\ walkPc' = "returned"
    /\ walkRet' = ""
    /\ UNCHANGED <<scriptVars, cfgServers, pc, stage, failedAt, localFiles,
                   resources, semHeld, errChan, mainPc, success, saves, analysisVars,
                   compareVars, connVars, extractVars, lockVars, mode,
                   maxConc, manifest, disk, rootFiles, visited, walkFailed>>

NextWalk ==
    \/ WalkFile
    \/ WalkError
    \/ WalkCleanup


\* ============================================ GenerateCollectionScript
\* The number of files configured at most.
MaxPaths == 2

\* A configured path: the segments of its directory and its base name (in
\* chunks, as for the files of the walk).
ConfiguredFiles == { [dir |-> <<"etc">>, base |-> <<"app.conf">>],
                     [dir |-> <<"etc">>, base |-> <<"hosts">>] }
ConfiguredDirs == { [dir |-> <<"etc">>, base |-> <<"nginx">>] }

\* What a configured path is on the remote host.
RemoteKinds == {"absent", "file", "dir"}

\* A statement of the script: the cleanup of the previous backup, a mkdir -p,
\* the if block of a file, the if block of a directory, the chmod, the cd and
\* the tar.
Statement(kind, path) == [kind |-> kind, path |-> path]
NoPath == [dir |-> <<>>, base |-> <<>>]

\* The two loops that write "mkdir -p <remoteBaseDir><dir>" once per
\* directory: filepath.Dir(p) for a file, p itself for a directory;
\* createdDirs suppresses repeats ("/" is skipped).
RECURSIVE MkdirLines(_, _)
MkdirLines(dirs, createdDirs) ==
    IF dirs = <<>> THEN <<>>
    ELSE IF Head(dirs) = <<>> \/ Head(dirs) \in createdDirs
         THEN MkdirLines(Tail(dirs), createdDirs)
         ELSE <<Statement("mkdir", [dir |-> Head(dirs), base |-> <<>>])>>
              \o MkdirLines(Tail(dirs), createdDirs \cup {Head(dirs)})

RECURSIVE Blocks(_, _)
Blocks(kind, paths) ==
    IF paths = <<>> THEN <<>>
    ELSE <<Statement(kind, Head(paths))>> \o Blocks(kind, Tail(paths))

\* GenerateCollectionScript(filePaths, dirPaths, username): the statements of
\* the script in the order they are written.
GenerateCollectionScript(files, dirs) ==
    <<Statement("rm", NoPath), Statement("mkdir", NoPath)>>
    \o MkdirLines([k \in 1..Len(files) |-> files[k].dir]
                  \o [k \in 1..Len(dirs) |-> RelativePath(dirs[k].dir, dirs[k].base)],
                  {})
    \o Blocks("copyFile", files)
    \o Blocks("copyDir", dirs)
    \o <<Statement("chmod", NoPath), Statement("cd", NoPath),
         Statement("tar", NoPath)>>

\* A simple command as bash runs it: its exit status, whether it stands where
\* set -e does not apply (the condition of an if, a command followed by ||),
\* and the entries it leaves in the backup directory.
Command(cmd, status, exempt, writes) ==
    [cmd |-> cmd, status |-> status, exempt |-> exempt, writes |-> writes]

\* The commands bash runs for one statement.  [ -f p ] and [ -d p ] are if
\* conditions; cp is a plain command of the then branch and may fail; echo and
\* touch make up the else branch; the find | cpio list and the chmod are
\* followed by "|| echo"; tar is a plain command and may fail.
Commands(stmt, fs, cpOk, tarOk) ==
    CASE stmt.kind = "copyFile" ->
            IF fs[stmt.path] = "file"
            THEN << Command("test -f", 0, TRUE, {}),
                    Command("cp", IF cpOk THEN 0 ELSE 1, FALSE,
                            {File(stmt.path.dir, stmt.path.base, TRUE, "c1")}) >>
            ELSE << Command("test -f", 1, TRUE, {}),
                    Command("echo", 0, FALSE, {}),
                    Command("touch", 0, FALSE,
                            {MarkerFor("file", stmt.path.dir, stmt.path.base)}) >>
      [] stmt.kind = "copyDir" ->
            IF fs[stmt.path] = "dir"
            THEN << Command("test -d", 0, TRUE, {}),
                    Command("cpio", IF cpOk THEN 0 ELSE 2, TRUE,
                            IF cpOk
                            THEN {File(RelativePath(stmt.path.dir, stmt.path.base),
                                       <<"site.conf">>, TRUE, "c2")}
                            ELSE {}) >>
            ELSE << Command("test -d", 1, TRUE, {}),
                    Command("echo", 0, FALSE, {}),
                    Command("touch", 0, FALSE,
                            {MarkerFor("dir", stmt.path.dir, stmt.path.base)}) >>
      [] stmt.kind = "chmod" -> << Command("chmod", 0, TRUE, {}) >>
      [] stmt.kind = "tar" ->
            << Command("tar", IF tarOk THEN 0 ELSE 2, FALSE, {}) >>
      [] OTHER -> << Command(stmt.kind, 0, FALSE, {}) >>

\* set -e taken to apply to every command, if conditions included.
ErrexitEverywhere(c) == c.status # 0

\* set -e: a failing command ends the script unless it is exempt.
Errexit(c) == c.status # 0 /\ ~c.exempt

\* The first command of the list that ends the script (0: none does).
AbortAt(cmds) ==
    LET hits == {k \in 1..Len(cmds) : Errexit(cmds[k])}
    IN  IF hits = {} THEN 0 ELSE CHOOSE k \in hits : \A o \in hits : k <= o

\* What the commands run before the script ended have written.  A command
\* that fails writes nothing.
Written(cmds) ==
    LET last == IF AbortAt(cmds) = 0 THEN Len(cmds) ELSE AbortAt(cmds)
    IN  UNION {cmds[k].writes : k \in {j \in 1..last : cmds[j].status = 0}}

\* bash runs the next statement of the script on the remote host.
RunStatement ==
    /\ mode = "script"
    /\ exitStatus = "running"
    /\ line <= Len(script)
    /\ \E cpOk \in BOOLEAN : \E tarOk \in BOOLEAN :
          LET cmds == Commands(script[line], remoteFs, cpOk, tarOk)
              at == AbortAt(cmds)
          IN  /\ staged' = staged \cup Written(cmds)
              /\ IF at # 0
                 THEN /\ exitStatus' = "failed"
                      /\ UNCHANGED line
                 ELSE /\ line' = line + 1
                      /\ exitStatus' = IF line = Len(script) THEN "ok"
                                       ELSE "running"
    /\ UNCHANGED <<collectVars, analysisVars, compareVars, extractVars,
                   walkVars, connVars, lockVars, mode, maxConc, manifest,
                   disk, filePaths, dirPaths, remoteFs, script>>

NextScript == RunStatement


\* ====================================================== Connect (sshutil)
maxRetries == 3
retryDelay == 2

\* What keyPath may hold and the passphrases a caller may pass.
KeyFiles == {"unreadable", "garbage", "plain", "encrypted"}
Passphrases == {"", "right", "wrong"}

\* What one connection attempt can meet: net.DialTimeout fails; ssh.NewClientConn
\* fails in the transport; ssh.NewClientConn fails because the server rejects
\* the credential; both succeed.
AttemptOutcomes == {"dial", "handshake", "auth", "ok"}

\* Connect returns err.
ConnectReturn(err) ==
    /\ connRet' = err
    /\ connPc' = "done"

\* os.ReadFile(keyPath), then ssh.ParsePrivateKeyWithPassphrase when a
\* passphrase was given and ssh.ParsePrivateKey otherwise.  Every failure
\* returns before the retry loop.  What the parser makes of a passphrase
\* given for a key that has none is left open.
LoadKey ==
    /\ mode = "connect"
    /\ connPc = "start"
    /\ \/ keyFile = "unreadable" /\ ConnectReturn("read key")
       \/ /\ keyFile = "garbage"
          /\ ConnectReturn("parse key")
       \/ /\ keyFile = "encrypted"
          /\ CASE keyPassphrase = ""      -> ConnectReturn("passphrase missing")
               [] keyPassphrase = "wrong" -> ConnectReturn("parse key")
               [] OTHER -> connPc' = "dial" /\ UNCHANGED connRet
       \/ /\ keyFile = "plain"
          /\ \/ connPc' = "dial" /\ UNCHANGED connRet
             \/ keyPassphrase # "" /\ ConnectReturn("parse key")
    /\ UNCHANGED <<scriptVars, collectVars, analysisVars, compareVars, lockVars, extractVars,
                   walkVars, mode, maxConc, manifest, disk, keyFile,
                   keyPassphrase, attempts, waited>>

\* A retry test that lets the last attempt retry as well.
ShouldRetryAfterLast(attempt) == attempt <= maxRetries

\* attempt < maxRetries: a retry is due after a failed attempt that is not
\* the last one.
ShouldRetry(attempt) == attempt < maxRetries

\* One turn of the retry loop: dial and handshake.  A failure of either, of
\* whatever cause, sleeps retryDelay and goes round again when a retry is due
\* and returns the error otherwise; success leaves the loop.
ConnectAttempt ==
    /\ mode = "connect"
    /\ connPc = "dial"
    /\ \E outcome \in AttemptOutcomes :
        /\ attempts' = Append(attempts, outcome)
        /\ IF outcome = "ok"
           THEN /\ connPc' = "sftp"
                /\ UNCHANGED <<waited, connRet>>
           ELSE IF ShouldRetry(Len(attempts) + 1)
                THEN /\ waited' = waited + retryDelay
                     /\ UNCHANGED <<connPc, connRet>>
                ELSE /\ ConnectReturn(outcome)
                     /\ UNCHANGED waited
    /\ UNCHANGED <<scriptVars, collectVars, analysisVars, compareVars, lockVars, extractVars,
                   walkVars, mode, maxConc, manifest, disk, keyFile,
                   keyPassphrase>>

\* sftp.NewClient on the established connection; on failure the connection
\* is closed and the error returned.
NewSftpClient ==
    /\ mode = "connect"
    /\ connPc = "sftp"
    /\ \/ ConnectReturn("ok")
       \/ ConnectReturn("sftp")
    /\ UNCHANGED <<scriptVars, collectVars, analysisVars, compareVars, lockVars, extractVars,
                   walkVars, mode, maxConc, manifest, disk, keyFile,
                   keyPassphrase, attempts, waited>>

NextConnect ==
    \/ LoadKey
    \/ ConnectAttempt
    \/ NewSftpClient


\* ======================================== Manifest.Mu (config, concurrent)
\* The goroutines that read the manifest under Mu.RLock.
Readers == {"GetFileInfo", "Save", "getFilesToCompare"}

\* The AddFile calls one worker makes for its host: one file; a file and
\* then the marker that names the same path; two files.
CallLists ==
    LET p == <<"etc", "app.conf">>
        q == <<"var", "data.bin">>
        call(path, checksum, fileError) ==
            [path |-> path, checksum |-> checksum, error |-> fileError]
    IN  { <<call(p, "c1", "")>>,
          <<call(p, "c1", ""), call(p, "", "Missing on remote")>>,
          <<call(p, "c1", ""), call(q, "c2", "")>> }

\* A write lock that only keeps readers out.
CanLockAmongWriters(mu) == mu.readers = {}

\* Mu.Lock returns when nobody holds the mutex; Mu.RLock when no writer does.
CanLock(mu) == mu.writers = {} /\ mu.readers = {}

CanRLock(mu) == mu.writers = {}

\* AddFile up to the map access: Mu.Lock, then the lookup of the server's
\* map in FilesByServer.
AddFileEnter(s) ==
    /\ mode = "locks"
    /\ wPc[s] = "idle"
    /\ completed[s] < Len(calls[s])
    /\ CanLock(Mu)
    /\ Mu' = [Mu EXCEPT !.writers = @ \cup {s}]
    /\ seen' = [seen EXCEPT ![s] = manifest]
    /\ wPc' = [wPc EXCEPT ![s] = "in"]
    /\ UNCHANGED <<scriptVars, collectVars, analysisVars, compareVars, extractVars,
                   walkVars, connVars, mode, maxConc, manifest, disk, calls,
                   completed, rPc>>

\* The rest of AddFile: the store into the map found, and the deferred
\* Mu.Unlock.
AddFileExit(s) ==
    /\ mode = "locks"
    /\ wPc[s] = "in"
    /\ LET c == calls[s][completed[s] + 1]
       IN  manifest' = AddFile(seen[s], s, c.path, c.checksum, c.error)
    /\ completed' = [completed EXCEPT ![s] = @ + 1]
    /\ Mu' = [Mu EXCEPT !.writers = @ \ {s}]
    /\ seen' = [seen EXCEPT ![s] = NewManifest]
    /\ wPc' = [wPc EXCEPT ![s] = "idle"]
    /\ UNCHANGED <<scriptVars, collectVars, analysisVars, compareVars, extractVars,
                   walkVars, connVars, mode, maxConc, disk, calls, rPc>>

\* GetFileInfo, Save or getFilesToCompare: Mu.RLock ...
ReadEnter(r) ==
    /\ mode = "locks"
    /\ rPc[r] = "idle"
    /\ CanRLock(Mu)
    /\ Mu' = [Mu EXCEPT !.readers = @ \cup {r}]
    /\ rPc' = [rPc EXCEPT ![r] = "in"]
    /\ UNCHANGED <<scriptVars, collectVars, analysisVars, compareVars, extractVars,
                   walkVars, connVars, mode, maxConc, manifest, disk, calls,
                   completed, seen, wPc>>

\* ... and the deferred Mu.RUnlock after the read.
ReadExit(r) ==
    /\ mode = "locks"
    /\ rPc[r] = "in"
    /\ Mu' = [Mu EXCEPT !.readers = @ \ {r}]
    /\ rPc' = [rPc EXCEPT ![r] = "done"]
    /\ UNCHANGED <<scriptVars, collectVars, analysisVars, compareVars, extractVars,
                   walkVars, connVars, mode, maxConc, manifest, disk, calls,
                   completed, seen, wPc>>

NextLocks ==
    \/ \E s \in Servers : AddFileEnter(s) \/ AddFileExit(s)
    \/ \E r \in Readers : ReadEnter(r) \/ ReadExit(r)


\* ======================================================= ExtractTarGz (util)
\* A path string is the sequence of the pieces its separators cut it into:
\* "/etc/passwd" is <<"", "etc", "passwd">>, "./" is <<".", "">>, "a/b" is
\* <<"a", "b">>.  A cleaned path is [abs, segs]: rooted or not, and its
\* segments.
IsAbs(raw) == Len(raw) >= 2 /\ raw[1] = ""

\* filepath.Clean: drop empty and "." pieces, let ".." remove the piece before
\* it, drop ".." at the root, keep leading ".." of a relative path.
RECURSIVE CleanFrom(_, _, _)
CleanFrom(raw, abs, out) ==
    IF raw = <<>> THEN out
    ELSE LET h == Head(raw)
             rest == Tail(raw)
         IN  IF h = "" \/ h = "." THEN CleanFrom(rest, abs, out)
             ELSE IF h = ".."
                  THEN IF out # <<>> /\ out[Len(out)] # ".."
                       THEN CleanFrom(rest, abs, SubSeq(out, 1, Len(out) - 1))
                       ELSE IF abs THEN CleanFrom(rest, abs, out)
                       ELSE CleanFrom(rest, abs, Append(out, ".."))
                  ELSE CleanFrom(rest, abs, Append(out, h))

Clean(raw) == [abs |-> IsAbs(raw), segs |-> CleanFrom(raw, IsAbs(raw), <<>>)]

\* The string of a cleaned path, cut into pieces again.
Raw(p) ==
    IF p.abs THEN (IF p.segs = <<>> THEN <<"", "">> ELSE <<"">> \o p.segs)
    ELSE IF p.segs = <<>> THEN <<".">> ELSE p.segs

\* filepath.Join: the non-empty elements joined by separators, then cleaned.
\* A later element that starts with a separator does not restart the path.
RECURSIVE Concat(_)
Concat(elems) ==
    IF elems = <<>> THEN <<>>
    ELSE (IF Head(elems) = <<"">> THEN <<>> ELSE Head(elems)) \o Concat(Tail(elems))

Join(elems) == Clean(Concat(elems))

\* filepath.Dir of a cleaned path with at least one segment.
Dir(p) == [p EXCEPT !.segs = SubSeq(p.segs, 1, Len(p.segs) - 1)]

\* The check made against the directory above the destination.
HasParentPrefix(target, cleanDest) ==
    /\ cleanDest.segs # <<>>
    /\ target.abs = cleanDest.abs
    /\ Len(target.segs) >= Len(cleanDest.segs)
    /\ SubSeq(target.segs, 1, Len(cleanDest.segs) - 1)
          = SubSeq(cleanDest.segs, 1, Len(cleanDest.segs) - 1)

\* strings.HasPrefix(target, filepath.Clean(dest)+string(os.PathSeparator)) on
\* cleaned paths: Clean(dest) followed by a separator starts the target
\* exactly when the target lies strictly below Clean(dest).  "/" and "."
\* followed by a separator start no cleaned path.
HasDestPrefix(target, cleanDest) ==
    /\ cleanDest.segs # <<>>
    /\ target.abs = cleanDest.abs
    /\ Len(target.segs) > Len(cleanDest.segs)
    /\ SubSeq(target.segs, 1, Len(cleanDest.segs)) = cleanDest.segs

\* The output directories tried, and the destination collectFromServer hands
\* to ExtractTarGz for server "A".
OutputDirs == { <<".">>, <<"", "out">> }
ServerOutputDir(outputDir) ==
    Join(<<outputDir, <<"collected-files">>, <<"files-A">>>>)

\* Header names and types an archive may hold.
EntryNames ==
    { <<".">>,                              \* .
      <<".", "">>,                          \* ./
      <<".", "etc", "hosts">>,              \* ./etc/hosts
      <<"etc", "hosts">>,                   \* etc/hosts
      <<"..", "..", "etc", "passwd">>,      \* ../../etc/passwd
      <<"", "etc", "passwd">>,              \* /etc/passwd
      <<"..", "files-B", "x">> }            \* ../files-B/x
EntryTypes == {"dir", "reg", "symlink"}
Entries == [name : EntryNames, type : EntryTypes]

\* Longest archive tried.
MaxEntries == 2

Archives == UNION { [1..n -> Entries] : n \in 0..MaxEntries }

\* What exists before extraction: the destination and the directories above
\* it (the caller's MkdirAll).  ".." names an existing directory.
Prefix(p, k) == [p EXCEPT !.segs = SubSeq(p.segs, 1, k)]
ExistsBefore(p, d) ==
    \/ p.segs = <<>>
    \/ p.segs[Len(p.segs)] = ".."
    \/ /\ p.abs = d.abs
       /\ Len(p.segs) <= Len(d.segs)
       /\ p.segs = SubSeq(d.segs, 1, Len(p.segs))

Dirs(fsys) == {c.path : c \in {x \in fsys : x.kind = "dir"}}
Files(fsys) == {c.path : c \in {x \in fsys : x.kind = "file"}}

\* os.MkdirAll(p): possible when no path on the way is a file; creates every
\* directory on the way that does not exist.
CanMkdirAll(fsys, p) ==
    \A k \in 1..Len(p.segs) : Prefix(p, k) \notin Files(fsys)
MkdirAll(fsys, p, d) ==
    fsys \cup { [path |-> Prefix(p, k), kind |-> "dir"] :
                  k \in {i \in 1..Len(p.segs) : ~ExistsBefore(Prefix(p, i), d)} }

\* os.OpenFile(target, O_CREATE|O_RDWR|O_TRUNC): possible when the target is
\* not a directory.
CanCreate(fsys, p) == p \notin Dirs(fsys)
Create(fsys, p) == fsys \cup {[path |-> p, kind |-> "file"]}

\* ExtractTarGz returns err.
ExtractReturn(err) ==
    /\ extractErr' = err
    /\ exPc' = "done"

\* gzip.NewReader on the stream.
OpenStream ==
    /\ mode = "extract"
    /\ exPc = "start"
    /\ \/ exPc' = "loop" /\ UNCHANGED extractErr
       \/ ExtractReturn("failed to create gzip reader")
    /\ UNCHANGED <<scriptVars, collectVars, analysisVars, compareVars,
                   lockVars, connVars, walkVars, mode, maxConc, manifest,
                   disk, dest, archive, consumed, created, partial>>

\* One turn of the loop: tarReader.Next, the path check, the switch on the
\* entry type.
ExtractEntry ==
    /\ mode = "extract"
    /\ exPc = "loop"
    /\ consumed < Len(archive)
    /\ LET header == archive[consumed + 1]
           target == Join(<<Raw(dest), header.name>>)
       IN  /\ consumed' = consumed + 1
           /\ IF ~HasDestPrefix(target, Clean(Raw(dest)))
              THEN /\ ExtractReturn("invalid file path in tar")
                   /\ UNCHANGED <<created, partial>>
              ELSE CASE header.type = "dir" ->
                        \/ /\ CanMkdirAll(created, target)
                           /\ created' = MkdirAll(created, target, dest)
                           /\ UNCHANGED <<partial, extractErr, exPc>>
                        \/ /\ ExtractReturn("failed to create directory")
                           /\ created' \in {created, MkdirAll(created, Dir(target), dest)}
                           /\ UNCHANGED partial
                     [] header.type = "reg" ->
                        \/ /\ ExtractReturn("failed to create parent directory")
                           /\ UNCHANGED <<created, partial>>
                        \/ /\ CanMkdirAll(created, Dir(target))
                           /\ ExtractReturn("failed to create file")
                           /\ created' = MkdirAll(created, Dir(target), dest)
                           /\ UNCHANGED partial
                        \/ /\ CanMkdirAll(created, Dir(target))
                           /\ CanCreate(created, target)
                           /\ created' = Create(MkdirAll(created, Dir(target), dest), target)
                           \* io.Copy: its error is assigned to a variable of
                           \* the closure, so the loop goes on either way.
                           /\ \/ partial' = partial \ {target}
                              \/ partial' = partial \cup {target}
                           /\ UNCHANGED <<extractErr, exPc>>
                     [] OTHER ->
                        UNCHANGED <<created, partial, extractErr, exPc>>
    /\ UNCHANGED <<scriptVars, collectVars, analysisVars, compareVars,
                   lockVars, connVars, walkVars, mode, maxConc, manifest,
                   disk, dest, archive>>

\* tarReader.Next returns io.EOF at the end of the archive, or an error.
EndOfArchive ==
    /\ mode = "extract"
    /\ exPc = "loop"
    /\ \/ consumed = Len(archive) /\ ExtractReturn("")
       \/ ExtractReturn("failed to read tar header")
    /\ UNCHANGED <<scriptVars, collectVars, analysisVars, compareVars,
                   lockVars, connVars, walkVars, mode, maxConc, manifest,
                   disk, dest, archive, consumed, created, partial>>

NextExtract ==
    \/ OpenStream
    \/ ExtractEntry
    \/ EndOfArchive


\* ============================================================== analyze
\* The relative paths a manifest may hold in an analysis run.
AnalysisPaths == {<<"etc", "hosts">>, <<"etc_hosts">>}

\* What a persisted manifest may say about one (server, path): no record, an
\* error record, a fingerprint record (two fingerprints), or a record with
\* neither fingerprint nor error (LoadManifest accepts any such document).
RecordKinds == {"absent", "error", "c1", "c2", "empty"}

ManifestOf(f) ==
    { FileInfo(k[1], k[2],
               IF f[k] \in {"c1", "c2"} THEN f[k] ELSE "",
               IF f[k] = "error" THEN "Missing on remote" ELSE "")
      : k \in {x \in DOMAIN f : f[x] # "absent"} }

\* Manifest.GetFileInfo: <<info, exists>> under the read lock.
GetFileInfo(m, server, relativePath) ==
    LET hit == {e \in m : e.server = server /\ e.path = relativePath}
    IN  IF hit = {} THEN <<FileInfo(server, relativePath, "", ""), FALSE>>
        ELSE <<CHOOSE e \in hit : TRUE, TRUE>>

\* getFilesToCompare: fileCounts counts, per path, the configured servers
\* whose record for it has no error; a path is common when the count is
\* len(servers).  The code sorts the list; the set is kept here.
FileCount(m, servers, filePath) ==
    Cardinality({sv \in 1..servers :
        \E e \in m : e.server = sv /\ e.path = filePath /\ e.error = ""})

\* A test that takes a path found on any server (the union).
IsOnSomeServer(count, numServers) == count >= 1

IsCommon(count, numServers) == count = numServers

getFilesToCompare(servers, m) ==
    LET allFiles ==
            {e.path : e \in {x \in m : x.server \in 1..servers /\ x.error = ""}}
    IN  {fp \in allFiles : IsCommon(FileCount(m, servers, fp), servers)}

\* ---------------------------------------------------- compareSingleFile
\* The local copy of a path under files-<server>: absent, present but
\* unreadable, or readable with one of two contents.
LocalKinds == {"missing", "unreadable", "x", "y"}

\* The length of the server list in the runs of compareSingleFile that need
\* more than one pair of servers.
NumCompared == 3

HostName(i) == <<"A", "B", "C", "D">>[i]

\* The pairs (i, j), i < j, in the order the two nested loops visit them.
RECURSIVE PairsFrom(_, _, _)
PairsFrom(servers, i, j) ==
    IF i >= servers THEN <<>>
    ELSE IF j > servers THEN PairsFrom(servers, i + 1, i + 2)
    ELSE <<<<i, j>>>> \o PairsFrom(servers, i, j + 1)

ServerPairs == PairsFrom(NumServers, 1, 2)

\* Step 1: the servers whose record is missing, has an error or has no
\* checksum; each adds a message to errorsFound.
BadRecord(m, server, filePath) ==
    LET r == GetFileInfo(m, server, filePath)
    IN  ~r[2] \/ r[1].error # "" \/ r[1].checksum = ""

RECURSIVE GatherErrors(_, _, _, _)
GatherErrors(m, servers, filePath, i) ==
    IF i > servers THEN <<>>
    ELSE (IF BadRecord(m, i, filePath)
          THEN <<[kind |-> "record", server |-> i]>> ELSE <<>>)
         \o GatherErrors(m, servers, filePath, i + 1)

\* allMatch with firstChecksum never set: every later checksum is compared
\* with the empty string.
AllMatchFirstUnset(m, servers, filePath) ==
    \A i \in 2..servers :
        BadRecord(m, i, filePath)
        \/ GetFileInfo(m, i, filePath)[1].checksum = ""

\* allMatch: firstChecksum is set at i == 0 only, and only when the first
\* server's record is good; every later good record is compared with it.
AllMatch(m, servers, filePath) ==
    LET firstChecksum ==
            IF BadRecord(m, 1, filePath) THEN ""
            ELSE GetFileInfo(m, 1, filePath)[1].checksum
    IN  \A i \in 2..servers :
            BadRecord(m, i, filePath)
            \/ GetFileInfo(m, i, filePath)[1].checksum = firstChecksum

\* A pairwise turn that treats diff's exit status 0 like status 1 and stores
\* the (empty) output as a diff.
PairOutcomeExitZeroStored(loc, i, j) ==
    IF loc[i] = "missing" THEN "missing1"
    ELSE IF loc[j] = "missing" THEN "missing2"
    ELSE IF loc[i] = "unreadable" \/ loc[j] = "unreadable" THEN "error"
    ELSE "differ"

\* What one turn of the pairwise loop does for (i, j): an os.Stat miss on
\* either copy skips the diff; else diff -u runs and exits 1 (differ), 0
\* (same) or above 1 (trouble, here an unreadable copy).
PairOutcome(loc, i, j) ==
    IF loc[i] = "missing" THEN "missing1"
    ELSE IF loc[j] = "missing" THEN "missing2"
    ELSE IF loc[i] = "unreadable" \/ loc[j] = "unreadable" THEN "error"
    ELSE IF loc[i] = loc[j] THEN "same"
    ELSE "differ"

\* The outcomes of a turn in which diff was run.
DiffRuns == {"error", "same", "differ"}

\* The key with the two servers the other way round.
ComparisonKeyReversed(i, j) == HostName(j) \o "_vs_" \o HostName(i)

ComparisonKey(i, j) == HostName(i) \o "_vs_" \o HostName(j)

\* strings.ReplaceAll(filePath, "/", "_")
RECURSIVE Sanitize(_)
Sanitize(filePath) ==
    IF Len(filePath) = 0 THEN ""
    ELSE IF Len(filePath) = 1 THEN filePath[1]
    ELSE filePath[1] \o "_" \o Sanitize(Tail(filePath))

DiffFileName(filePath, i, j) ==
    Sanitize(filePath) \o "__" \o HostName(i) \o "_vs_" \o HostName(j) \o ".diff"

\* The pairs, in loop order, whose turn has one of the given outcomes.
PairSeqWhere(loc, servers, outcomes) ==
    SelectSeq(PairsFrom(servers, 1, 2),
              LAMBDA pr : PairOutcome(loc, pr[1], pr[2]) \in outcomes)

PairError(loc, pr) ==
    LET o == PairOutcome(loc, pr[1], pr[2])
    IN  [kind |-> IF o = "error" THEN "diff" ELSE "local",
         server |-> IF o = "missing2" THEN pr[2] ELSE pr[1]]

RECURSIVE MapErrors(_, _)
MapErrors(loc, prs) ==
    IF prs = <<>> THEN <<>>
    ELSE <<PairError(loc, Head(prs))>> \o MapErrors(loc, Tail(prs))

SeqRange(sq) == {sq[k] : k \in 1..Len(sq)}

\* The fileComparisonResult compareSingleFile sends, with what it did on the
\* way: diffed (the pairs diff ran on, in order), warned (the pairs whose diff
\* found no difference) and saved (the os.WriteFile calls into diffDir: the
\* file name, for which path and which pair of servers).  Diffs is kept
\* as the set of its keys; the diff text itself is not modelled.
compareSingleFile(filePath, servers, m, loc, save) ==
    LET errorsFound == GatherErrors(m, servers, filePath, 1)
        foundOnAll == errorsFound = <<>>
        base == [path |-> filePath, IsDiff |-> TRUE, Diffs |-> {},
                 Errors |-> errorsFound, diffed |-> <<>>, warned |-> {},
                 saved |-> {}]
        differing == SeqRange(PairSeqWhere(loc, servers, {"differ"}))
    IN  IF ~foundOnAll THEN base
        ELSE IF AllMatch(m, servers, filePath) THEN [base EXCEPT !.IsDiff = FALSE]
        ELSE [base EXCEPT
                !.Diffs = {ComparisonKey(pr[1], pr[2]) : pr \in differing},
                !.Errors = MapErrors(loc, PairSeqWhere(loc, servers,
                              {"missing1", "missing2", "error"})),
                !.diffed = PairSeqWhere(loc, servers, DiffRuns),
                !.warned = SeqRange(PairSeqWhere(loc, servers, {"same"})),
                !.saved = IF save
                          THEN {[name |-> DiffFileName(filePath, pr[1], pr[2]),
                                 path |-> filePath, pair |-> pr] : pr \in differing}
                          ELSE {}]

\* Of a result, what RunAnalysis's range loop reads to update its state: the
\* path, IsDiff and the Errors it logs one by one.  (Diffs is only printed.)
Sent(result) ==
    [path |-> result.path, IsDiff |-> result.IsDiff,
     nErrors |-> Len(result.Errors)]

NoResult ==
    [path |-> <<>>, IsDiff |-> FALSE, Diffs |-> {}, Errors |-> <<>>,
     diffed |-> <<>>, warned |-> {}, saved |-> {}]

\* The local copies matter only when the pairwise loop is reached.
ReachesDiff(m, servers, filePath) ==
    /\ GatherErrors(m, servers, filePath, 1) = <<>>
    /\ ~AllMatch(m, servers, filePath)

LocalStates(m, servers, filePath) ==
    IF ReachesDiff(m, servers, filePath) THEN [1..servers -> LocalKinds]
    ELSE {[sv \in 1..servers |-> "x"]}


\* compareSingleFile on its own: a single call for a path RunAnalysis hands
\* it, for a list of that many servers, with the local copies it finds and
\* either value of saveDiffs.
CompareAmong(servers) ==
    /\ lastResult = NoResult
    /\ \E fp \in getFilesToCompare(servers, manifest) :
       \E loc \in LocalStates(manifest, servers, fp) :
       \E save \in BOOLEAN :
          /\ lastResult' = compareSingleFile(fp, servers, manifest, loc, save)
          /\ localCopies' = loc
    /\ UNCHANGED <<scriptVars, collectVars, analysisVars, extractVars,
                   lockVars, connVars, walkVars, mode, maxConc, manifest,
                   disk>>

CompareOne == mode = "compare" /\ CompareAmong(NumServers)

\* The same call for a longer server list and a single path.
CompareSeveral == mode = "several" /\ CompareAmong(NumCompared)

NextSeveral == CompareSeveral

NextCompare == CompareOne

\* ---------------------------------------------------------- RunAnalysis
Returned(differs, err) == [differs |-> differs, err |-> err]
NotReturned == Returned(FALSE, "running")

\* A LoadManifest that treats a missing manifest.json like any other read
\* failure.
LoadManifestAbsentFails(file) ==
    CASE file.kind = "manifest" -> <<file.files, "">>
      [] OTHER                  -> <<NewManifest, "load">>

\* LoadManifest: os.IsNotExist gives NewManifest() and no error; any other
\* ReadFile failure, or a document json.Unmarshal rejects, gives an error.
LoadManifest(file) ==
    CASE file.kind = "none"     -> <<NewManifest, "">>
      [] file.kind = "manifest" -> <<file.files, "">>
      [] OTHER                  -> <<NewManifest, "load">>

\* What os.Stat can find for a server's collection directory: it is there,
\* it does not exist, or it cannot be examined.
DirStates == {"present", "missing", "nostat"}

\* A directory check that reports a missing directory only for the first
\* configured server.
CheckDirsFirstOnly(dirs) ==
    IF dirs[1] = "missing"
    THEN "collection directory files-" \o HostName(1) \o " not found"
    ELSE ""

\* The loop over cfg.Servers: the error for the first server, in configured
\* order, whose directory is not there or cannot be examined; "" when every
\* directory is present.
CheckDirs(dirs) ==
    LET bad == {s \in Servers : dirs[s] # "present"}
        first == CHOOSE s \in bad : \A o \in bad : s <= o
    IN  IF bad = {} THEN ""
        ELSE IF dirs[first] = "missing"
        THEN "collection directory files-" \o HostName(first) \o " not found"
        ELSE "failed to stat collection directory files-" \o HostName(first)

\* RunAnalysis(cfg, outputDir, diffDir, saveDiffs, maxConcurrency) up to the
\* start of its goroutines: load the manifest, verify the per-server
\* directories, compute the files to compare, prepare the diff directory and
\* start one goroutine per file.  The two flags are read here.
StartAnalysis ==
    /\ mode = "analyze"
    /\ anaPc = "start"
    /\ LET loaded == LoadManifest(disk)
           files == getFilesToCompare(NumServers, loaded[1])
       IN  \/ /\ loaded[2] # ""
              /\ ret' = Returned(FALSE, loaded[2])
              /\ anaPc' = "done"
              /\ UNCHANGED <<manifest, localDirs, filesToCompare, taskPc,
                             maxConc, saveDiffs>>
           \/ /\ loaded[2] = ""
              /\ manifest' = loaded[1]
              /\ \E dirs \in [Servers -> DirStates] :
                  /\ localDirs' = dirs
                  /\ \/ /\ CheckDirs(dirs) # ""
                        /\ ret' = Returned(FALSE, CheckDirs(dirs))
                        /\ anaPc' = "done"
                        /\ UNCHANGED <<filesToCompare, taskPc, maxConc,
                                       saveDiffs>>
                     \/ /\ CheckDirs(dirs) = ""
                        /\ files = {}
                        /\ ret' = Returned(FALSE, "")
                        /\ anaPc' = "done"
                        /\ UNCHANGED <<filesToCompare, taskPc, maxConc,
                                       saveDiffs>>
                     \/ /\ CheckDirs(dirs) = ""
                        /\ files # {}
                        /\ saveDiffs' = TRUE
                        /\ ret' = Returned(FALSE, "mkdir")
                        /\ anaPc' = "done"
                        /\ filesToCompare' = files
                        /\ UNCHANGED <<taskPc, maxConc>>
                     \/ /\ CheckDirs(dirs) = ""
                        /\ files # {}
                        /\ filesToCompare' = files
                        /\ maxConc' \in 1..MaxConcurrency
                        /\ saveDiffs' \in BOOLEAN
                        /\ taskPc' = [fp \in AnalysisPaths |->
                                         IF fp \in files THEN "start"
                                         ELSE "none"]
                        /\ anaPc' = "collect"
                        /\ UNCHANGED ret
    /\ UNCHANGED <<scriptVars, collectVars, compareVars,
                   lockVars, connVars, walkVars, extractVars, mode, disk,
                   taskHeld,
                   resultChan, chanClosed, tally, reported, errorsLogged,
                   diffFiles>>

\* sem.Acquire(context.Background(), 1) in a comparison goroutine.
TaskCanAcquire(held) == Cardinality(held) < maxConc

TaskAcquire(fp) ==
    /\ mode = "analyze"
    /\ taskPc[fp] = "start"
    /\ TaskCanAcquire(taskHeld)
    /\ taskHeld' = taskHeld \cup {fp}
    /\ taskPc' = [taskPc EXCEPT ![fp] = "holding"]
    /\ UNCHANGED <<scriptVars, collectVars, compareVars,
                   lockVars, connVars, walkVars, extractVars, mode, maxConc,
                   manifest, disk, localDirs, saveDiffs,
                   filesToCompare, resultChan, chanClosed, tally,
                   reported, errorsLogged, diffFiles, anaPc, ret>>

\* The goroutine's deferred sem.Release(1).
TaskRelease(held, fp) == held \ {fp}

\* A compareSingleFile whose early return for matching checksums sends
\* nothing.
SendUnlessIdentical(chan, result) ==
    IF result.IsDiff THEN Append(chan, Sent(result)) ELSE chan

\* resultChan <- result, the last statement on each of compareSingleFile's
\* three ways out.
Send(chan, result) == Append(chan, Sent(result))

\* The rest of the goroutine: compareSingleFile runs and, as its last
\* statement, sends its result (the channel's buffer holds len(filesToCompare)
\* results, so the send does not block); then the deferred Release and Done.
Compare(fp) ==
    /\ mode = "analyze"
    /\ taskPc[fp] = "holding"
    /\ \E result \in
            {compareSingleFile(fp, NumServers, manifest, loc, saveDiffs) :
                loc \in LocalStates(manifest, NumServers, fp)} :
          /\ resultChan' = Send(resultChan, result)
          /\ diffFiles' = diffFiles \cup result.saved
    /\ taskHeld' = TaskRelease(taskHeld, fp)
    /\ taskPc' = [taskPc EXCEPT ![fp] = "done"]
    /\ UNCHANGED <<scriptVars, collectVars, compareVars,
                   lockVars, connVars, walkVars, extractVars, mode, maxConc,
                   manifest, disk, localDirs, saveDiffs,
                   filesToCompare, chanClosed, tally, reported,
                   errorsLogged, anaPc, ret>>

\* A tally whose anyDiffFound is assigned, not accumulated.
TallyLastWins(t, result) ==
    [compared  |-> t.compared + 1,
     identical |-> IF result.IsDiff THEN t.identical ELSE t.identical + 1,
     different |-> IF result.IsDiff THEN t.different + 1 ELSE t.different,
     anyDiffFound |-> result.IsDiff]

\* A loop that leaves a result carrying errors out of the counts.
TallySkipsFailed(t, result) ==
    IF result.nErrors > 0 THEN t
    ELSE [compared  |-> t.compared + 1,
          identical |-> IF result.IsDiff THEN t.identical ELSE t.identical + 1,
          different |-> IF result.IsDiff THEN t.different + 1 ELSE t.different,
          anyDiffFound |-> t.anyDiffFound \/ result.IsDiff]

\* One turn of "for result := range resultChan".
Tally(t, result) ==
    [compared  |-> t.compared + 1,
     identical |-> IF result.IsDiff THEN t.identical ELSE t.identical + 1,
     different |-> IF result.IsDiff THEN t.different + 1 ELSE t.different,
     anyDiffFound |-> t.anyDiffFound \/ result.IsDiff]

Receive ==
    /\ mode = "analyze"
    /\ anaPc = "collect"
    /\ resultChan # <<>>
    /\ LET result == Head(resultChan)
       IN  /\ tally' = Tally(tally, result)
           /\ reported' = [reported EXCEPT ![result.path] = @ + 1]
           /\ errorsLogged' = errorsLogged + result.nErrors
    /\ resultChan' = Tail(resultChan)
    /\ UNCHANGED <<scriptVars, collectVars, compareVars,
                   lockVars, connVars, walkVars, extractVars, mode, maxConc,
                   manifest, disk, localDirs, saveDiffs,
                   filesToCompare, taskPc, taskHeld, chanClosed,
                   diffFiles, anaPc, ret>>

\* Once every task is done the closer goroutine (wg.Wait; close(resultChan))
\* closes the channel, and the range loop ends on the closed, drained
\* channel.  analysisErrors holds only semaphore errors, and Acquire on
\* context.Background() returns none, so the function returns
\* (anyDiffFound, nil).
FinishAnalysis ==
    /\ mode = "analyze"
    /\ anaPc = "collect"
    /\ \A fp \in filesToCompare : taskPc[fp] = "done"
    /\ resultChan = <<>>
    /\ chanClosed' = TRUE
    /\ ret' = Returned(tally.anyDiffFound, "")
    /\ anaPc' = "done"
    /\ UNCHANGED <<scriptVars, collectVars, compareVars,
                   lockVars, connVars, walkVars, extractVars, mode, maxConc,
                   manifest, disk, localDirs, saveDiffs,
                   filesToCompare, taskPc, taskHeld, resultChan,
                   tally, reported, errorsLogged, diffFiles>>

TaskStep(fp) ==
    \/ TaskAcquire(fp)
    \/ Compare(fp)

NextAnalysis ==
    \/ StartAnalysis
    \/ \E fp \in AnalysisPaths : TaskStep(fp)
    \/ Receive
    \/ FinishAnalysis

\* ---------------------------------------------------- initial conditions
IdleCollect ==
    /\ cfgServers = DistinctServers
    /\ pc = [s \in Servers |-> "none"]
    /\ stage = [s \in Servers |-> "None"]
    /\ failedAt = [s \in Servers |-> ""]
    /\ cleanups = [s \in Servers |-> 0]
    /\ cleanupErr = [s \in Servers |-> FALSE]
    /\ resources = [s \in Servers |-> NoResources]
    /\ localFiles = [s \in Servers |-> {}]
    /\ semHeld = {}
    /\ errChan = {}
    /\ mainPc = "none"
    /\ success = TRUE
    /\ saves = 0

IdleAnalysis ==
    /\ localDirs = [s \in Servers |-> "unread"]
    /\ saveDiffs = FALSE
    /\ filesToCompare = {}
    /\ taskPc = [fp \in AnalysisPaths |-> "none"]
    /\ taskHeld = {}
    /\ resultChan = <<>>
    /\ chanClosed = FALSE
    /\ tally = [compared |-> 0, identical |-> 0, different |-> 0,
                anyDiffFound |-> FALSE]
    /\ reported = [fp \in AnalysisPaths |-> 0]
    /\ errorsLogged = 0
    /\ diffFiles = {}
    /\ anaPc = "none"
    /\ ret = NotReturned

IdleCompare ==
    /\ localCopies = [sv \in Servers |-> "x"]
    /\ lastResult = NoResult

IdleWalk ==
    /\ rootFiles = <<>>
    /\ visited = 0
    /\ walkFailed = FALSE
    /\ walkPc = "none"
    /\ walkRet = "pending"

IdleConnect ==
    /\ keyFile = "plain"
    /\ keyPassphrase = ""
    /\ attempts = <<>>
    /\ waited = 0
    /\ connPc = "none"
    /\ connRet = "pending"

IdleScript ==
    /\ filePaths = <<>>
    /\ dirPaths = <<>>
    /\ remoteFs = [p \in ConfiguredFiles \cup ConfiguredDirs |-> "absent"]
    /\ script = <<>>
    /\ line = 0
    /\ staged = {}
    /\ exitStatus = "none"

IdleLocks ==
    /\ Mu = [writers |-> {}, readers |-> {}]
    /\ calls = [s \in Servers |-> <<>>]
    /\ completed = [s \in Servers |-> 0]
    /\ seen = [s \in Servers |-> NewManifest]
    /\ wPc = [s \in Servers |-> "idle"]
    /\ rPc = [r \in Readers |-> "idle"]

IdleExtract ==
    /\ dest = ServerOutputDir(<<".">>)
    /\ archive = <<>>
    /\ consumed = 0
    /\ created = {}
    /\ partial = {}
    /\ extractErr = ""
    /\ exPc = "none"

\* The manifests a persisted document may hold.
Manifests == {ManifestOf(f) : f \in [Servers \X AnalysisPaths -> RecordKinds]}

\* RunCollection after its spawn loop: every worker goroutine exists and has
\* not yet run (a goroutine not yet spawned and one not yet scheduled look the
\* same to the others), the manifest is new, errChan is empty.
CollectSpawned ==
    /\ mode = "collect"
    /\ IdleScript
    /\ IdleLocks
    /\ IdleConnect
    /\ IdleWalk
    /\ pc = [s \in Servers |-> "start"]
    /\ stage = [s \in Servers |-> "None"]
    /\ failedAt = [s \in Servers |-> ""]
    /\ cleanups = [s \in Servers |-> 0]
    /\ cleanupErr = [s \in Servers |-> FALSE]
    /\ resources = [s \in Servers |-> NoResources]
    /\ semHeld = {}
    /\ manifest = NewManifest
    /\ errChan = {}
    /\ mainPc = "wait"
    /\ success = TRUE
    /\ disk \in {NoFile, PriorManifest}
    /\ localFiles = [s \in Servers |-> PriorFiles(disk, s)]
    /\ saves = 0
    /\ IdleAnalysis
    /\ IdleCompare
    /\ IdleExtract

\* The caller passes a capacity of at least one and a list that names every
\* host once.
InitCollect ==
    /\ CollectSpawned
    /\ maxConc \in 1..MaxConcurrency
    /\ cfgServers = DistinctServers

\* The caller passes any list of NumServers host names: LoadConfig splits
\* --servers at the commas and checks only that the list is not empty.
InitCollectAnyList ==
    /\ CollectSpawned
    /\ maxConc \in 1..MaxConcurrency
    /\ cfgServers \in [Servers -> Servers]

\* The caller passes any value from zero up: --concurrency is handed on
\* unchecked.  (A negative capacity behaves as zero does: Acquire(ctx, 1) asks
\* for more than the semaphore's size.)
InitCollectAnyLimit ==
    /\ CollectSpawned
    /\ maxConc \in 0..MaxConcurrency
    /\ cfgServers = DistinctServers

\* RunAnalysis on entry: any persisted manifest; the flags are not yet read.
InitAnalysis ==
    /\ mode = "analyze"
    /\ IdleScript
    /\ IdleLocks
    /\ IdleConnect
    /\ IdleWalk
    /\ maxConc = 0
    /\ manifest = NewManifest
    /\ disk \in {NoFile, Truncated, [kind |-> "unreadable", files |-> {}]}
                \cup {Document(m) : m \in Manifests}
    /\ IdleCollect
    /\ localDirs = [s \in Servers |-> "unread"]
    /\ saveDiffs = FALSE
    /\ filesToCompare = {}
    /\ taskPc = [fp \in AnalysisPaths |-> "none"]
    /\ taskHeld = {}
    /\ resultChan = <<>>
    /\ chanClosed = FALSE
    /\ tally = [compared |-> 0, identical |-> 0, different |-> 0,
                anyDiffFound |-> FALSE]
    /\ reported = [fp \in AnalysisPaths |-> 0]
    /\ errorsLogged = 0
    /\ diffFiles = {}
    /\ anaPc = "start"
    /\ ret = NotReturned
    /\ IdleCompare
    /\ IdleExtract

\* compareSingleFile before a call: any loaded manifest.
InitCompare ==
    /\ mode = "compare"
    /\ IdleScript
    /\ IdleLocks
    /\ IdleConnect
    /\ IdleWalk
    /\ maxConc = 0
    /\ manifest \in Manifests
    /\ disk = NoFile
    /\ IdleCollect
    /\ IdleAnalysis
    /\ IdleCompare
    /\ IdleExtract

\* compareSingleFile before a call for NumCompared servers: any loaded
\* manifest with records for one path.
ManifestsCompared ==
    {ManifestOf(f) :
        f \in [(1..NumCompared) \X {<<"etc", "hosts">>} -> RecordKinds]}

InitSeveral ==
    /\ mode = "several"
    /\ IdleScript
    /\ IdleLocks
    /\ IdleConnect
    /\ IdleWalk
    /\ maxConc = 0
    /\ manifest \in ManifestsCompared
    /\ disk = NoFile
    /\ IdleCollect
    /\ IdleAnalysis
    /\ IdleCompare
    /\ IdleExtract

\* ExtractTarGz on entry: any archive, the destination of either output
\* directory, nothing extracted yet.
InitExtract ==
    /\ mode = "extract"
    /\ IdleScript
    /\ IdleLocks
    /\ IdleConnect
    /\ IdleWalk
    /\ maxConc = 0
    /\ manifest = NewManifest
    /\ disk = NoFile
    /\ IdleCollect
    /\ IdleAnalysis
    /\ IdleCompare
    /\ dest \in {ServerOutputDir(o) : o \in OutputDirs}
    /\ archive \in Archives
    /\ consumed = 0
    /\ created = {}
    /\ partial = {}
    /\ extractErr = ""
    /\ exPc = "start"

\* collectFromServer after ExtractTarGz returned nil: any extraction root,
\* nothing recorded yet.
InitWalk ==
    /\ mode = "walk"
    /\ IdleScript
    /\ IdleLocks
    /\ IdleConnect
    /\ maxConc = 0
    /\ manifest = NewManifest
    /\ disk = NoFile
    /\ IdleCollect
    /\ IdleAnalysis
    /\ IdleCompare
    /\ IdleExtract
    /\ rootFiles \in Roots
    /\ visited = 0
    /\ walkFailed = FALSE
    /\ walkPc = "walking"
    /\ walkRet = "pending"

\* Connect on entry: any key file, any passphrase.
InitConnect ==
    /\ mode = "connect"
    /\ IdleScript
    /\ IdleLocks
    /\ maxConc = 0
    /\ manifest = NewManifest
    /\ disk = NoFile
    /\ IdleCollect
    /\ IdleAnalysis
    /\ IdleCompare
    /\ IdleExtract
    /\ IdleWalk
    /\ keyFile \in KeyFiles
    /\ keyPassphrase \in Passphrases
    /\ attempts = <<>>
    /\ waited = 0
    /\ connPc = "start"
    /\ connRet = "pending"

\* A new manifest shared by one worker per host and the readers; nobody has
\* started.
InitLocks ==
    /\ mode = "locks"
    /\ IdleScript
    /\ maxConc = 0
    /\ manifest = NewManifest
    /\ disk = NoFile
    /\ IdleCollect
    /\ IdleAnalysis
    /\ IdleCompare
    /\ IdleExtract
    /\ IdleWalk
    /\ IdleConnect
    /\ Mu = [writers |-> {}, readers |-> {}]
    /\ calls \in [Servers -> CallLists]
    /\ completed = [s \in Servers |-> 0]
    /\ seen = [s \in Servers |-> NewManifest]
    /\ wPc = [s \in Servers |-> "idle"]
    /\ rPc = [r \in Readers |-> "idle"]

SpecCollect == InitCollect /\ [][NextCollect]_vars

\* RunCollection for any configured server list.
SpecCollectAnyList == InitCollectAnyList /\ [][NextCollect]_vars

\* collectFromServer has generated the script from the configured paths
\* (step 2) and uploaded it; bash is about to run it on a host where each
\* configured path is a file, a directory or absent.  The sudo rm -rf of the
\* first statement has emptied the backup directory.
InitScript ==
    /\ mode = "script"
    /\ maxConc = 0
    /\ manifest = NewManifest
    /\ disk = NoFile
    /\ IdleCollect
    /\ IdleAnalysis
    /\ IdleCompare
    /\ IdleExtract
    /\ IdleWalk
    /\ IdleConnect
    /\ IdleLocks
    /\ filePaths \in UNION {[1..n -> ConfiguredFiles] : n \in 0..MaxPaths}
    /\ dirPaths \in UNION {[1..n -> ConfiguredDirs] : n \in 0..1}
    /\ remoteFs \in [ConfiguredFiles \cup ConfiguredDirs -> RemoteKinds]
    /\ script = GenerateCollectionScript(filePaths, dirPaths)
    /\ line = 1
    /\ staged = {}
    /\ exitStatus = "running"

SpecScript == InitScript /\ [][NextScript]_vars

SpecLocks == InitLocks /\ [][NextLocks]_vars

\* The records of a manifest from their writing to their use: the walk that
\* writes them, or the comparison that reads them.
SpecRecords == (InitWalk \/ InitCompare) /\ [][NextWalk \/ NextCompare]_vars

SpecConnect == InitConnect /\ [][NextConnect]_vars

SpecWalk == InitWalk /\ [][NextWalk]_vars

\* Every goroutine that can take a step eventually does (the Go scheduler
\* starves no runnable goroutine, and every remote or local call returns).
FairSpecCollect ==
    /\ SpecCollect
    /\ \A s \in Servers : WF_vars(CollectStep(s))
    /\ WF_vars(WaitAndDrain)
    /\ WF_vars(SaveOrSkip)

\* RunCollection under the same scheduling, for any maxConcurrency.
FairSpecCollectAnyLimit ==
    /\ InitCollectAnyLimit
    /\ [][NextCollect]_vars
    /\ \A s \in Servers : WF_vars(CollectStep(s))
    /\ WF_vars(WaitAndDrain)
    /\ WF_vars(SaveOrSkip)

SpecAnalysis == InitAnalysis /\ [][NextAnalysis]_vars

SpecCompare == InitCompare /\ [][NextCompare]_vars

SpecSeveral == InitSeveral /\ [][NextSeveral]_vars

SpecExtract == InitExtract /\ [][NextExtract]_vars

\* The whole program: any of its entry points.
Init == InitCollect \/ InitAnalysis \/ InitCompare \/ InitExtract \/ InitWalk
        \/ InitConnect \/ InitLocks \/ InitScript \/ InitSeveral

Next ==
    \/ NextCollect \/ NextAnalysis \/ NextCompare \/ NextExtract \/ NextWalk
    \/ NextConnect \/ NextLocks \/ NextScript \/ NextSeveral

Spec == Init /\ [][Next]_vars


\* ================================================================ claims
\* ----------------------------------------------------------------- C1
\* C1: in RunCollection and in RunAnalysis, with limiter capacity C >= 1, in
\* every reachable state at most C tasks are between a successful Acquire and
\* the matching Release: at most C servers are inside collectFromServer and at
\* most C paths are inside compareSingleFile.
C1_ConcurrencyBound ==
    /\ Cardinality(semHeld) <= maxConc
    /\ Cardinality({s \in Servers : pc[s] \in {"running", "returned"}}) <= maxConc
    /\ Cardinality(taskHeld) <= maxConc
    /\ Cardinality({fp \in AnalysisPaths : taskPc[fp] = "holding"}) <= maxConc

\* More servers than permits, every permit out, a worker waiting to acquire.
C1_LimiterFull ==
    /\ mode = "collect"
    /\ maxConc >= 1
    /\ NumServers > maxConc
    /\ Cardinality(semHeld) = maxConc
    /\ \E s \in Servers : pc[s] = "start"
    /\ \E s \in Servers : pc[s] = "running" /\ stage[s] # "None"

\* ----------------------------------------------------------------- C2
\* C2: RunCollection calls Manifest.Save only if every worker finished without
\* error; when a server has failed no Save is made, the persisted manifest
\* stays what it was before the run (none of this run's records is in it), and
\* RunCollection returns false.
C2_SaveOnlyOnFullSuccess ==
    /\ saves > 0 =>
          \A s \in Servers : pc[s] = "done" /\ stage[s] = "CleanedUp"
    /\ (\E s \in Servers : stage[s] = "Failed") =>
          /\ saves = 0
          /\ disk \in {NoFile, PriorManifest}
          /\ \A e \in manifest : e \notin disk.files
          /\ mainPc = "done" => ~success

\* RunCollection has returned after one server failed and another succeeded
\* and left a record in the in-memory manifest.
C2_PartialRunDiscarded ==
    /\ mainPc = "done"
    /\ \E s \in Servers, t \in Servers :
          /\ stage[s] = "Failed"
          /\ stage[t] = "CleanedUp"
          /\ \E e \in manifest : e.server = t

\* ----------------------------------------------------------------- C3
\* C3: once a server's collection has failed, at whatever stage, every other
\* server's worker still acquires the limiter and runs its own pipeline to its
\* own terminal state (CleanedUp or Failed) and exits.
C3_FailureIsolated ==
    (\E s \in Servers : stage[s] = "Failed") ~>
        (\A t \in Servers :
            /\ pc[t] = "done"
            /\ stage[t] \in {"CleanedUp", "Failed"}
            /\ t \notin semHeld)

\* With a single permit: one server failed and left, and another one holds the
\* permit and has got through its pipeline.
C3_SiblingRanAfterFailure ==
    /\ maxConc = 1
    /\ \E s \in Servers, t \in Servers :
          /\ stage[s] = "Failed" /\ pc[s] = "done"
          /\ stage[t] = "CleanedUp" /\ t \in semHeld

\* ----------------------------------------------------------------- C4
\* Whether path p is directory d or lies below it.
C4_Within(p, d) ==
    /\ p.abs = d.abs
    /\ Len(p.segs) >= Len(d.segs)
    /\ \A k \in 1..Len(d.segs) : p.segs[k] = d.segs[k]

\* Where an entry name leads when followed from the destination.
C4_Resolved(name) == Join(<<Raw(dest), name>>)

\* C4 as stated: an entry whose name leads outside the destination, through
\* ".." segments or because it is an absolute path, makes ExtractTarGz return
\* the path error at that entry, and nothing is created outside the
\* destination.
C4_EscapingOrAbsoluteRejected ==
    /\ \A k \in 1..consumed :
          (IsAbs(archive[k].name) \/ ~C4_Within(C4_Resolved(archive[k].name), dest))
             => /\ k = consumed
                /\ exPc = "done"
                /\ extractErr = "invalid file path in tar"
    /\ \A c \in created : C4_Within(c.path, dest)

\* C4 amended: an entry whose name, joined to the destination, leads outside
\* it through ".." segments makes ExtractTarGz return the path error at that
\* entry; an absolute entry name is joined below the destination like any
\* other, so it is not rejected for being absolute; and nothing is created
\* outside the destination.
C4_EscapingRejected ==
    /\ \A k \in 1..consumed :
          ~C4_Within(C4_Resolved(archive[k].name), dest)
             => /\ k = consumed
                /\ exPc = "done"
                /\ extractErr = "invalid file path in tar"
    /\ \A c \in created : C4_Within(c.path, dest) /\ c.path # dest

\* An archive whose first entry was extracted below the destination and whose
\* second entry, leading outside through "..", ended the extraction.
C4_EscapeStopped ==
    /\ exPc = "done"
    /\ extractErr = "invalid file path in tar"
    /\ consumed = 2
    /\ created # {}
    /\ archive[2].name[1] = ".."

\* ----------------------------------------------------------------- C5
\* The paths with a record without error for every configured server.
C5_OnEveryServer ==
    {fp \in AnalysisPaths :
        \A sv \in Servers :
            \E e \in manifest : e.server = sv /\ e.path = fp /\ e.error = ""}

\* C5: getFilesToCompare returns exactly the paths that have a record without
\* error for every configured server; any other path gets no comparison task
\* and no result.
C5_StrictIntersection ==
    (anaPc = "collect" \/ (anaPc = "done" /\ ret.err = "")) =>
        /\ filesToCompare = C5_OnEveryServer
        /\ \A fp \in AnalysisPaths \ C5_OnEveryServer :
              /\ taskPc[fp] = "none"
              /\ reported[fp] = 0
              /\ \A k \in 1..Len(resultChan) : resultChan[k].path # fp

\* RunAnalysis has returned after comparing one path, while another path with
\* a valid record on only some of the servers was left out.
C5_SubsetPathLeftOut ==
    /\ anaPc = "done"
    /\ ret.err = ""
    /\ \E fp \in filesToCompare : reported[fp] = 1
    /\ \E fq \in AnalysisPaths \ filesToCompare :
          \E e \in manifest : e.path = fq /\ e.error = ""

\* ------------------------------------------------------------ C6, C7, C8
\* The fingerprint the manifest records for (server, path): "" when there is
\* no record, an error record or a record without checksum.
RecordedSum(sv, fp) ==
    LET hit == {e \in manifest : e.server = sv /\ e.path = fp /\ e.error = ""}
    IN  IF hit = {} THEN "" ELSE (CHOOSE e \in hit : TRUE).checksum

FingerprintedEverywhere(fp) == \A sv \in Servers : RecordedSum(sv, fp) # ""

FingerprintsEqual(fp) ==
    \A sv \in Servers : \A sw \in Servers : RecordedSum(sv, fp) = RecordedSum(sw, fp)

\* C6: for a compared path with a fingerprint on every server, all equal,
\* compareSingleFile sends IsDiff = false and has run diff zero times.
C6_EqualFingerprintsNoDiff ==
    (/\ lastResult # NoResult
     /\ FingerprintedEverywhere(lastResult.path)
     /\ FingerprintsEqual(lastResult.path))
        => /\ lastResult.IsDiff = FALSE
           /\ lastResult.diffed = <<>>
           /\ lastResult.Diffs = {}

\* A result for a path whose fingerprints are equal, sent although the local
\* copies were not looked at.
C6_IdenticalSent ==
    /\ lastResult # NoResult
    /\ FingerprintedEverywhere(lastResult.path)
    /\ FingerprintsEqual(lastResult.path)
    /\ ~lastResult.IsDiff

\* The pairs i < j of configured servers.
C7_AllPairs == {pr \in Servers \X Servers : pr[1] < pr[2]}

\* The sequence visits its pairs once each, in the order of the nested loops.
C7_OncePerPairInOrder(sq) ==
    \A a \in 1..Len(sq) : \A b \in 1..Len(sq) :
        a < b => \/ sq[a][1] < sq[b][1]
                 \/ sq[a][1] = sq[b][1] /\ sq[a][2] < sq[b][2]

\* The keys of the pairs whose diff reports a difference: both copies can be
\* read and their contents differ.
C7_DifferingKeys ==
    { HostName(pr[1]) \o "_vs_" \o HostName(pr[2]) :
        pr \in {q \in C7_AllPairs :
                  /\ localCopies[q[1]] \in {"x", "y"}
                  /\ localCopies[q[2]] \in {"x", "y"}
                  /\ localCopies[q[1]] # localCopies[q[2]]} }

\* C7 as stated: for a compared path whose fingerprints are not all equal,
\* IsDiff = true, diff ran once for every pair i < j, and Diffs holds one entry
\* "<host_i>_vs_<host_j>" per pair whose diff reported a difference.
C7_DiffEveryPair ==
    (/\ lastResult # NoResult
     /\ FingerprintedEverywhere(lastResult.path)
     /\ ~FingerprintsEqual(lastResult.path))
        => /\ lastResult.IsDiff
           /\ SeqRange(lastResult.diffed) = C7_AllPairs
           /\ C7_OncePerPairInOrder(lastResult.diffed)
           /\ lastResult.Diffs = C7_DifferingKeys

\* C7 amended: for a compared path whose fingerprints are not all equal,
\* IsDiff = true, diff ran once for every pair i < j whose two local copies
\* both exist (a pair with a missing local copy is skipped and an error is
\* recorded), and Diffs holds one entry "<host_i>_vs_<host_j>" per pair whose
\* diff reported a difference.
C7_DiffEveryPresentPair ==
    (/\ lastResult # NoResult
     /\ FingerprintedEverywhere(lastResult.path)
     /\ ~FingerprintsEqual(lastResult.path))
        => /\ lastResult.IsDiff
           /\ SeqRange(lastResult.diffed) =
                 {pr \in C7_AllPairs : /\ localCopies[pr[1]] # "missing"
                                       /\ localCopies[pr[2]] # "missing"}
           /\ C7_OncePerPairInOrder(lastResult.diffed)
           /\ lastResult.Diffs = C7_DifferingKeys

\* Servers A and B hold different contents under different fingerprints: the
\* result has the one entry "A_vs_B".
C7_OneEntryForAB ==
    /\ lastResult.IsDiff
    /\ localCopies[1] = "x"
    /\ localCopies[2] = "y"
    /\ <<1, 2>> \in SeqRange(lastResult.diffed)
    /\ "A_vs_B" \in lastResult.Diffs

\* Some pair of servers has two fingerprints for the path, and they differ.
C8_SomePairDiffers(fp) ==
    \E sv \in Servers : \E sw \in Servers :
        /\ RecordedSum(sv, fp) # ""
        /\ RecordedSum(sw, fp) # ""
        /\ RecordedSum(sv, fp) # RecordedSum(sw, fp)

C9_CleanupBeforeReturn ==
    \A s \in Servers :
        (/\ pc[s] \in {"returned", "done"}
         /\ failedAt[s] \in {"script", "download", "mkdir", "open", "extract"})
            => cleanups[s] >= 1

\* ---------------------------------------------------------------- C10
\* The stage order, step by step.
C10_NextInOrder(from, to) ==
    \/ from = "None" /\ to = "Connected"
    \/ from = "Connected" /\ to = "ScriptUploaded"
    \/ from = "ScriptUploaded" /\ to = "ScriptExecuted"
    \/ from = "ScriptExecuted" /\ to = "ArchiveDownloaded"
    \/ from = "ArchiveDownloaded" /\ to = "Extracted"
    \/ from = "Extracted" /\ to = "Fingerprinted"
    \/ from = "Fingerprinted" /\ to = "CleanedUp"

\* C10 as stated: every change of a server's stage goes to the next stage in
\* order or to Failed, nothing leaves Failed or CleanedUp, and every step that
\* meets a failure moves the server to Failed.
C10_EveryFailureIsTerminal ==
    [][\A s \in Servers :
          /\ stage'[s] # stage[s] =>
                \/ C10_NextInOrder(stage[s], stage'[s])
                \/ stage'[s] = "Failed" /\ stage[s] \notin {"Failed", "CleanedUp"}
          /\ failedAt'[s] # failedAt[s] => stage'[s] = "Failed"]_vars

\* C10 amended: every change of a server's stage goes to the next stage in
\* order or to Failed, and nothing leaves Failed or CleanedUp; a failure that
\* collectFromServer returns (connect, temporary file, upload, script,
\* download, directory, open, extract) moves the server to Failed, while a
\* failure of the fingerprint walk or of the final cleanup is only logged and
\* the server moves on to the next stage.
C10_StagesInOrder ==
    [][\A s \in Servers :
          /\ stage'[s] # stage[s] =>
                \/ C10_NextInOrder(stage[s], stage'[s])
                \/ /\ stage'[s] = "Failed"
                   /\ stage[s] \notin {"Failed", "CleanedUp", "Extracted", "Fingerprinted"}
                   /\ failedAt'[s] # failedAt[s]
          /\ failedAt'[s] # failedAt[s] =>
                IF failedAt'[s] \in {"walk", "cleanup"}
                THEN C10_NextInOrder(stage[s], stage'[s])
                ELSE stage'[s] = "Failed"]_vars

\* One server went through every stage although its walk or its final cleanup
\* failed, and another one ended in Failed.
C10_LoggedFailureReachedEnd ==
    \E s \in Servers, t \in Servers :
        /\ stage[s] = "CleanedUp" /\ failedAt[s] \in {"walk", "cleanup"}
        /\ stage[t] = "Failed"

\* ---------------------------------------------------------------- C11
\* The marker suffix a file name ends with, and the name without it.
C11_MarkerSuffix(f) ==
    IF HasSuffix(f.base, DirMarkerSuffix) THEN DirMarkerSuffix
    ELSE FileMarkerSuffix

C11_Original(f) ==
    RelativePath(f.dir,
                 SubSeq(f.base, 1, Len(f.base) - Len(C11_MarkerSuffix(f))))

\* C11: every missing-marker file the walk has handled, with either suffix,
\* left an error-record with an empty fingerprint and "Missing on remote"
\* under the path with the whole marker suffix stripped, and that path is
\* not among the files to compare.
C11_MarkerRecordedUnderOriginalPath ==
    mode = "walk" =>
        \A k \in 1..visited :
            IsMarker(rootFiles[k].base) =>
                /\ FileInfo(WalkServer, C11_Original(rootFiles[k]), "",
                            "Missing on remote") \in manifest
                /\ C11_Original(rootFiles[k]) \notin getFilesToCompare(NumServers, manifest)

\* ---------------------------------------------------------------- C12
\* The names of the synthetic root entry of an archive made with "tar czf x .".
C12_RootNames == { <<".">>, <<".", "">> }

\* C12: a turn of the extraction loop that reads an entry named "." or "./"
\* creates nothing, raises no error, and leaves the loop running.
C12_RootEntrySkipped ==
    [][(/\ mode = "extract"
        /\ consumed' = consumed + 1
        /\ archive[consumed + 1].name \in C12_RootNames)
       => (/\ created' = created
           /\ extractErr' = ""
           /\ exPc' = "loop")]_vars

\* ---------------------------------------------------------------- C13
\* C13: a regular file whose data was not copied in full means ExtractTarGz
\* has returned an error and the file is no longer there.
C13_CopyFailureReturnsErrorAndRemovesFile ==
    mode = "extract" =>
        \A p \in partial :
            /\ exPc = "done"
            /\ extractErr # ""
            /\ p \notin Files(created)

\* ---------------------------------------------------------------- C14
\* The attempts that failed, and whether Connect is still in its retry loop.
C14_Failed == {i \in 1..Len(attempts) : attempts[i] # "ok"}

\* C14: Connect makes at most maxRetries (3) attempts; every failed attempt
\* but the third is followed by a wait of retryDelay (2 s) and another
\* attempt, so the loop's error is returned only after the third failure and
\* with two waits behind it; the first success is the last attempt.
C14_AtMostThreeAttempts ==
    mode = "connect" =>
        /\ Len(attempts) <= maxRetries
        /\ \A i \in 1..Len(attempts) : attempts[i] = "ok" => i = Len(attempts)
        /\ waited = retryDelay *
               (IF connPc = "dial" THEN Len(attempts)
                ELSE IF attempts = <<>> THEN 0 ELSE Len(attempts) - 1)
        /\ connPc = "dial" => Len(attempts) < maxRetries
        /\ (connPc = "done" /\ connRet \in {"dial", "handshake", "auth"}) =>
               /\ Len(attempts) = maxRetries
               /\ C14_Failed = 1..maxRetries
               /\ connRet = attempts[maxRetries]

\* Connect gave up after three failed attempts and two waits.
C14_GaveUpAfterThird ==
    /\ mode = "connect"
    /\ connPc = "done"
    /\ connRet = "dial"
    /\ attempts = <<"handshake", "dial", "dial">>
    /\ waited = 2 * retryDelay

\* ---------------------------------------------------------------- C15
\* C15: an authentication failure is fatal at once: after a key that cannot
\* be read or parsed, a wrong or missing passphrase, or an attempt the server
\* rejected, Connect has returned that error with no wait and no further
\* attempt.
C15_AuthFailureNotRetried ==
    mode = "connect" =>
        /\ connRet \in {"read key", "parse key", "passphrase missing"} =>
               attempts = <<>> /\ waited = 0
        /\ (\E i \in 1..Len(attempts) : attempts[i] = "auth") =>
               /\ connPc = "done"
               /\ connRet = "auth"
               /\ attempts = <<"auth">>
               /\ waited = 0

\* ---------------------------------------------------------------- C16
\* The manifest a worker's first n AddFile calls make, one after the other.
RECURSIVE C16_Applied(_, _, _)
C16_Applied(m, s, cs) ==
    IF cs = <<>> THEN m
    ELSE C16_Applied(AddFile(m, s, Head(cs).path, Head(cs).checksum,
                             Head(cs).error),
                     s, Tail(cs))

C16_InAddFile == {s \in Servers : wPc[s] = "in"}
C16_InRead == {r \in Readers : rPc[r] = "in"}

\* C16: at most one worker is inside AddFile's critical section and none
\* while GetFileInfo, Save or getFilesToCompare is inside its own; and the
\* manifest always holds, for every worker, exactly the records its returned
\* AddFile calls leave when applied in order, so after all workers finish
\* every (host, path) added is present with the value of its last AddFile.
C16_ExclusiveAndNoLostUpdate ==
    mode = "locks" =>
        /\ Cardinality(C16_InAddFile) <= 1
        /\ C16_InAddFile # {} => C16_InRead = {}
        /\ manifest =
               UNION {C16_Applied(NewManifest, s,
                                  SubSeq(calls[s], 1, completed[s])) :
                      s \in Servers}

\* All workers and readers have finished; one worker recorded the same path
\* twice and its last value is the one kept.
C16_AllFinished ==
    /\ mode = "locks"
    /\ \A s \in Servers : completed[s] = Len(calls[s])
    /\ \A r \in Readers : rPc[r] = "done"
    /\ \E s \in Servers :
        /\ Len(calls[s]) = 2
        /\ calls[s][1].path = calls[s][2].path
        /\ FileInfo(s, calls[s][2].path, calls[s][2].checksum,
                    calls[s][2].error) \in manifest
    /\ Cardinality(manifest) > NumServers

\* ---------------------------------------------------------------- C17
\* C17: every record the collection walk writes has exactly one of a
\* non-empty fingerprint and a non-empty error text; and no path chosen for
\* comparison, nor the path compared, has a record with an error on any
\* configured server.
C17_FingerprintXorError ==
    /\ mode = "walk" =>
           \A e \in manifest : (e.checksum # "") # (e.error # "")
    /\ mode = "compare" =>
           \A fp \in getFilesToCompare(NumServers, manifest) \cup
                     (IF lastResult = NoResult THEN {} ELSE {lastResult.path}) :
               \A s \in Servers :
                   GetFileInfo(manifest, s, fp)[1].error = ""

\* The walk has returned and left a fingerprint record and an error record.
C17_BothKindsWritten ==
    /\ mode = "walk"
    /\ walkPc = "returned"
    /\ \E e \in manifest : e.checksum # "" /\ e.error = ""
    /\ \E e \in manifest : e.checksum = "" /\ e.error # ""

\* ---------------------------------------------------------------- C18
\* A file of the root has a record under the walked host: a marker an
\* error-record "Missing on remote", any other file a record under its own
\* relative path.
C18_HasRecord(f) ==
    \E e \in manifest :
        /\ e.server = WalkServer
        /\ IF IsMarker(f.base)
           THEN e.checksum = "" /\ e.error = "Missing on remote"
           ELSE e.path = RelativePath(f.dir, f.base)

\* C18: once collectFromServer has returned success, every file under the
\* host's extraction root has a record in the manifest under that host.
C18_SuccessMeansEveryFileRecorded ==
    (mode = "walk" /\ walkPc = "returned" /\ walkRet = "") =>
        \A k \in 1..Len(rootFiles) : C18_HasRecord(rootFiles[k])

\* ---------------------------------------------------------------- C19
C19_Unreadable(f) == ~IsMarker(f.base) /\ ~f.readable

\* C19: the callback's turn on a file that cannot be fingerprinted leaves an
\* error-record (empty fingerprint, the error text) under that file's path
\* and the walk running; every later readable file gets its fingerprint
\* record; and collectFromServer returns nil, after the last file unless
\* WalkDir itself failed.
C19_FingerprintFailureDoesNotAbort ==
    [][(mode = "walk" /\ walkPc = "walking") =>
        /\ (visited' = visited + 1 /\ C19_Unreadable(rootFiles[visited'])) =>
               /\ \E e \in manifest' :
                      /\ e.server = WalkServer
                      /\ e.path = RelativePath(rootFiles[visited'].dir,
                                               rootFiles[visited'].base)
                      /\ e.checksum = ""
                      /\ e.error # ""
               /\ walkPc' = "walking"
               /\ walkFailed' = FALSE
        /\ (/\ visited' = visited + 1
            /\ ~IsMarker(rootFiles[visited'].base)
            /\ rootFiles[visited'].readable) =>
               FileInfo(WalkServer,
                        RelativePath(rootFiles[visited'].dir,
                                     rootFiles[visited'].base),
                        rootFiles[visited'].sum, "") \in manifest'
        /\ walkPc' = "returned" =>
               /\ walkRet' = ""
               /\ ~walkFailed' => visited' = Len(rootFiles)
      ]_vars

\* The host's collection returned success although etc/app.conf could not be
\* fingerprinted; var/data.bin, walked after it, has its fingerprint.
C19_ReturnedAfterFailure ==
    /\ mode = "walk"
    /\ walkPc = "returned"
    /\ walkRet = ""
    /\ ~walkFailed
    /\ Len(rootFiles) = 2
    /\ C19_Unreadable(rootFiles[1])
    /\ manifest = {FileInfo(WalkServer, <<"etc", "app.conf">>, "",
                            "failed to open file for checksum"),
                   FileInfo(WalkServer, <<"var", "data.bin">>, "c2", "")}

\* ---------------------------------------------------------------- C20
C20_NotFound(s) == "collection directory files-" \o HostName(s) \o " not found"
C20_NoStat(s) == "failed to stat collection directory files-" \o HostName(s)

C21_Loaded == mode = "analyze" /\ anaPc \in {"collect", "done"}

C21_AbsentManifestLoadsEmpty ==
    C21_Loaded =>
        /\ disk = NoFile => (ret.err # "load" /\ manifest = NewManifest)
        /\ ret.err = "load" => disk.kind \in {"truncated", "unreadable"}
        /\ disk.kind = "manifest" => (ret.err # "load" /\ manifest = disk.files)

\* RunAnalysis went past the load with no manifest.json on disk.
C21_AbsentLoaded ==
    C21_Loaded /\ disk = NoFile /\ ret.err = "" /\ manifest = NewManifest

\* C22: with diff persistence enabled, any two distinct (relative path, host
\* pair) combinations written during one RunAnalysis have distinct diff file
\* names <sanitizedRelativePath>__<hostA>_vs_<hostB>.diff, so that no two
\* comparison tasks write the same diff file.
C22_DiffFileNamesDistinct ==
    mode = "analyze" =>
        \A w1 \in diffFiles : \A w2 \in diffFiles :
            (w1.path # w2.path \/ w1.pair # w2.pair) => w1.name # w2.name

\* C23: within one RunCollection the manifest is written to persistent
\* storage at most once, and only after every collection worker has
\* finished: no AddFile happens concurrently with the Save or after it.  In
\* every state Save has run at most once, the main goroutine is past wg.Wait
\* only when every worker is done, and every step that changes the manifest
\* (an AddFile of a worker's walk) is taken before the wait has returned and
\* before any Save.
C23_SaveOnceAfterAllWorkers ==
    /\ [](mode = "collect" =>
            /\ saves <= 1
            /\ mainPc \in {"decide", "done"} => \A s \in Servers : pc[s] = "done"
            /\ saves = 1 => mainPc = "done")
    /\ [][(mode = "collect" /\ manifest' # manifest) =>
            (saves = 0 /\ saves' = 0 /\ mainPc = "wait" /\ mainPc' = "wait")]_vars

\* A run whose workers recorded files and whose manifest was then saved.
C23_SavedAfterRecording ==
    /\ mode = "collect"
    /\ saves = 1
    /\ mainPc = "done"
    /\ manifest # NewManifest
    /\ disk = Document(manifest)

\* C24: Manifest.Save is atomic with respect to the persisted file: after a
\* Save that fails or is interrupted, manifest.json holds either the complete
\* previous content or the complete new content, never an empty or truncated
\* document.
C24_SaveLeavesOldOrNew ==
    (mode = "collect" /\ saves = 1) =>
        \/ disk = Document(manifest)
        \/ disk \in {NoFile, PriorManifest}

\* C25: a comparison error for one path (a local copy missing, a diff
\* invocation that fails) is recorded in that path's result and never aborts
\* the run: every other qualifying path is still compared, and its result is
\* delivered to the aggregator and reported.  For every qualifying path and
\* every state of its local copies the result carries one error per pair
\* whose diff could not be made (checked when the goroutines have been
\* started, for the manifest they will read); a finished run has received
\* exactly one result for every qualifying path, has counted them all and
\* returns no error; and a step that logs a result's errors leaves the run
\* collecting.
C25_PairFailures(fp, loc) ==
    IF ReachesDiff(manifest, NumServers, fp)
    THEN Len(PairSeqWhere(loc, NumServers, {"missing1", "missing2", "error"}))
    ELSE 0

C25_Finished == mode = "analyze" /\ anaPc = "done" /\ chanClosed

C25_ComparisonErrorDoesNotAbort ==
    /\ []((mode = "analyze" /\ anaPc = "collect"
                /\ \A fp \in filesToCompare : taskPc[fp] = "start") =>
            \A fp \in filesToCompare : \A loc \in LocalStates(manifest, NumServers, fp) :
                LET result == compareSingleFile(fp, NumServers, manifest, loc, saveDiffs)
                IN  /\ result.path = fp
                    /\ Len(result.Errors) >= C25_PairFailures(fp, loc)
                    /\ ReachesDiff(manifest, NumServers, fp) =>
                          Len(result.Errors) = C25_PairFailures(fp, loc))
    /\ [](C25_Finished =>
            /\ \A fp \in filesToCompare : reported[fp] = 1
            /\ tally.compared = Cardinality(filesToCompare)
            /\ ret.err = "")
    /\ [][(mode = "analyze" /\ errorsLogged' > errorsLogged) =>
            (anaPc' = "collect" /\ ret' = NotReturned)]_vars

\* A finished run over two qualifying paths, all of whose records were good,
\* in which a comparison error was logged (so it came from a local copy or
\* from diff) and both paths were nevertheless reported.
C25_BothReportedDespiteError ==
    /\ C25_Finished
    /\ Cardinality(filesToCompare) = 2
    /\ \A fp \in filesToCompare : GatherErrors(manifest, NumServers, fp, 1) = <<>>
    /\ errorsLogged > 0
    /\ \A fp \in filesToCompare : reported[fp] = 1

\* C26: RunAnalysis produces for its caller a per-run error count: whenever
\* at least one comparison recorded an error, the value it returns signals a
\* non-zero error count.
C26_ErrorsSignalledToCaller ==
    (mode = "analyze" /\ anaPc = "done" /\ chanClosed /\ errorsLogged > 0)
        => ret.err # ""

\* C27: when a path's fingerprints differ but the content diff of a host
\* pair reports no textual difference, the case is surfaced as a warning and
\* never silently resolved: the result keeps differs = true and no diff entry
\* is stored for that pair.
C27_NoTextualDifference(pr) ==
    /\ localCopies[pr[1]] \in {"x", "y"}
    /\ localCopies[pr[1]] = localCopies[pr[2]]

C27_DiffStageReached ==
    /\ mode = "compare"
    /\ lastResult # NoResult
    /\ ReachesDiff(manifest, NumServers, lastResult.path)

C27_NoDifferenceIsWarned ==
    C27_DiffStageReached =>
        \A pr \in SeqRange(ServerPairs) :
            /\ C27_NoTextualDifference(pr) =>
                  /\ pr \in lastResult.warned
                  /\ lastResult.IsDiff
                  /\ ComparisonKey(pr[1], pr[2]) \notin lastResult.Diffs
                  /\ \A w \in lastResult.saved : w.pair # pr
            /\ pr \in lastResult.warned => C27_NoTextualDifference(pr)

\* Fingerprints differ, the two copies hold the same text: warned, still
\* reported as differing, with no diff entry at all.
C27_WarnedWithoutDiff ==
    /\ C27_DiffStageReached
    /\ C27_NoTextualDifference(<<1, 2>>)
    /\ <<1, 2>> \in lastResult.warned
    /\ lastResult.IsDiff
    /\ lastResult.Diffs = {}

\* C28: exactly one comparison result is produced per qualifying path and is
\* consumed by the single aggregator; at the end total compared = identical +
\* differing, and total compared equals the number of qualifying paths
\* whenever no limiter acquisition failed (sem.Acquire on
\* context.Background() returns no error, so none does).  At every moment a
\* path's result is either not yet sent, waiting in the channel, or received,
\* never twice; the counters agree with the results received; and a finished
\* run has received one result for each qualifying path and none for others.
C28_InChannel(fp) ==
    Cardinality({k \in 1..Len(resultChan) : resultChan[k].path = fp})

C28_Received ==
    Cardinality({fp \in AnalysisPaths : reported[fp] = 1})

C28_OneResultPerPath ==
    mode = "analyze" =>
        /\ \A fp \in AnalysisPaths :
              /\ reported[fp] \in {0, 1}
              /\ C28_InChannel(fp) + reported[fp] =
                    IF taskPc[fp] = "done" THEN 1 ELSE 0
        /\ tally.compared = tally.identical + tally.different
        /\ tally.compared = C28_Received
        /\ (anaPc = "done" /\ chanClosed) =>
              /\ tally.compared = Cardinality(filesToCompare)
              /\ \A fp \in AnalysisPaths :
                    reported[fp] = IF fp \in filesToCompare THEN 1 ELSE 0

\* A finished run over two qualifying paths, one identical and one differing.
C28_TwoCompared ==
    /\ mode = "analyze"
    /\ anaPc = "done"
    /\ chanClosed
    /\ Cardinality(filesToCompare) = 2
    /\ tally.identical = 1
    /\ tally.different = 1

\* C29: a remote cleanup failure is never escalated.  If every stage up to
\* Fingerprinted succeeded and only the final cleanup fails, collectFromServer
\* still returns success; if an earlier stage failed and the cleanup attempted
\* after it fails too, the error returned is the earlier stage's error.  On
\* the step in which a cleanup fails: from Fingerprinted the server ends in
\* CleanedUp, and from a failed script run or download it ends in Failed with
\* that stage's error; and a worker whose final cleanup failed sends no error
\* to RunCollection.
C29_CleanupFails(s) ==
    cleanups'[s] = cleanups[s] + 1 /\ cleanupErr'[s]

C29_CleanupFailureNotEscalated ==
    /\ [][mode = "collect" =>
            \A s \in Servers :
                C29_CleanupFails(s) =>
                    /\ stage[s] \in {"ScriptUploaded", "ScriptExecuted", "Fingerprinted"}
                    /\ stage[s] = "Fingerprinted" => stage'[s] = "CleanedUp"
                    /\ stage[s] = "ScriptUploaded" =>
                          (stage'[s] = "Failed" /\ failedAt'[s] = "script")
                    /\ stage[s] = "ScriptExecuted" =>
                          (stage'[s] = "Failed" /\ failedAt'[s] = "download")
                    /\ pc'[s] = "returned"]_vars
    /\ [](mode = "collect" =>
            \A s \in Servers :
                /\ stage[s] = "Failed" => failedAt[s] # "cleanup"
                /\ (pc[s] = "done" /\ cleanupErr[s] /\ stage[s] = "CleanedUp")
                      => s \notin errChan)

\* Both cases at once: one worker's final cleanup failed and it returned
\* success, the other's script failed, then its cleanup, and it returned the
\* script error.
C29_BothCleanupFailures ==
    /\ mode = "collect"
    /\ \E s \in Servers : \E o \in Servers :
          /\ pc[s] = "done" /\ pc[o] = "done"
          /\ cleanupErr[s] /\ stage[s] = "CleanedUp" /\ s \notin errChan
          /\ cleanupErr[o] /\ stage[o] = "Failed" /\ failedAt[o] = "script"
          /\ o \in errChan

\* C30: the script produced by GenerateCollectionScript does not abort
\* because a requested file or directory is absent: for each absent path it
\* writes the marker and goes on to process all remaining paths, the
\* permission step and the archive step.  The script is never ended by the
\* block of a path that is not there; every such block already run has left
\* its marker in the backup directory; and unless a copy of a path that is
\* there fails, every block, chmod, cd and tar are run.
C30_Absent(stmt) ==
    \/ stmt.kind = "copyFile" /\ remoteFs[stmt.path] # "file"
    \/ stmt.kind = "copyDir" /\ remoteFs[stmt.path] # "dir"

C30_Marker(stmt) ==
    MarkerFor(IF stmt.kind = "copyDir" THEN "dir" ELSE "file",
              stmt.path.dir, stmt.path.base)

C31_ScriptArchive ==
    /\ Len(archive) >= 1
    /\ archive[1] = [name |-> <<".", "">>, type |-> "dir"]
    /\ \A k \in 2..Len(archive) : archive[k].name = <<".", "etc", "hosts">>

\* The errors of ExtractTarGz that come from the stream or from the local
\* file system.
C31_LocalFailures ==
    { "failed to create gzip reader", "failed to read tar header",
      "failed to create directory", "failed to create parent directory",
      "failed to create file" }

\* C31: when connect, upload, script run and download have succeeded and the
\* local file system operations succeed, collectFromServer ends in success
\* with the host's files recorded; in particular the archive the generated
\* script produces (a tar of "." whose entries are named relative to "./") is
\* accepted by ExtractTarGz: it returns no error on such an archive unless a
\* local operation failed.
C31_ScriptArchiveAccepted ==
    (mode = "extract" /\ exPc = "done" /\ C31_ScriptArchive
        /\ extractErr \notin C31_LocalFailures)
    => extractErr = ""

\* ---------------------------------------------------------------- C32
\* C32: after any sequence of collection runs, successful or failed, the
\* persisted manifest describes the files of the local per-host collection
\* directories: every fingerprint record (host, path) of the persisted
\* manifest refers to a file that exists under that host's local directory
\* and was fingerprinted from its current content.  Checked when a run that
\* started from a consistent state has returned.
C32_PersistedManifestDescribesLocalFiles ==
    (mode = "collect" /\ mainPc = "done") =>
        \A r \in disk.files :
            r.checksum # "" =>
                \E f \in localFiles[r.server] :
                    /\ RelativePath(f.dir, f.base) = r.path
                    /\ f.sum = r.checksum

\* ---------------------------------------------------------------- C33
\* C33: for every integer maxConcurrency the caller passes, RunCollection and
\* RunAnalysis eventually return, provided each per-host collection or
\* per-file comparison terminates: every task eventually acquires the
\* limiter, runs, releases it on every exit path, and the end-of-fan-out wait
\* completes.  Stated for RunCollection: it eventually returns.
C33_EventuallyReturns == <>(mode = "collect" /\ mainPc = "done")

\* ---------------------------------------------------------------- C34
\* The main goroutine of RunCollection is past wg.Wait, close(errChan) and
\* the loop over errChan.
C34_Drained == mode = "collect" /\ mainPc \in {"decide", "done"}

\* C34: in RunAnalysis the result channel is closed only after every
\* comparison task has finished, no task sends on the closed channel or
\* blocks forever on a send, and the aggregator loop terminates having
\* consumed every result that was sent; the same holds for the error channel
\* of RunCollection.  Stated for the error channel: it is closed and drained
\* only when every worker is done, no error is sent after that, every failed
\* worker's error has been seen by the loop, and the loop does terminate.
C34_ChannelClosedAfterTasksAndDrained ==
    /\ [](C34_Drained =>
            /\ \A s \in Servers : pc[s] = "done"
            /\ \A s \in Servers : stage[s] = "Failed" => s \in errChan
            /\ mainPc = "decide" => (success <=> errChan = {}))
    /\ [][C34_Drained => errChan' = errChan]_vars
    /\ <>C34_Drained

\* ---------------------------------------------------------------- C35
\* The fingerprints the manifest holds for the compared path on two servers
\* are the same.
C35_EqualFingerprints(pr) ==
    GetFileInfo(manifest, pr[1], lastResult.path)[1].checksum
        = GetFileInfo(manifest, pr[2], lastResult.path)[1].checksum

\* C35: the warning that the fingerprints differed while diff found no
\* difference is raised for a pair of servers only if the fingerprints of
\* that very pair differ: with three or more servers, a pair whose
\* fingerprints are equal gets no such warning when the path as a whole
\* differs.
C35_WarningOnlyForDifferingPair ==
    (mode = "several" /\ lastResult # NoResult) =>
        \A pr \in lastResult.warned : ~C35_EqualFingerprints(pr)

\* ---------------------------------------------------------------- C36
\* C36: the two eligibility checks of the analysis agree for every manifest
\* that can be loaded: every path getFilesToCompare selects passes the
\* per-server presence check of compareSingleFile, so the result of a
\* selected path never carries a "not found or has error" message.
C36_SelectedPathsPassPresenceCheck ==
    (mode = "compare" /\ lastResult # NoResult) =>
        /\ lastResult.path \in getFilesToCompare(NumServers, manifest)
        /\ \A sv \in Servers : ~BadRecord(manifest, sv, lastResult.path)
        /\ \A e \in SeqRange(lastResult.Errors) : e.kind # "record"

\* ---------------------------------------------------------------- C37
\* The file is one of the empty markers the collection script touches for a
\* configured path that is missing on the server.
C37_WrittenByScript(f) ==
    \E kind \in {"file", "dir"} :
        f = MarkerFor(kind, f.dir,
                      SubSeq(f.base, 1, Len(f.base) - Len(C11_MarkerSuffix(f))))

\* C37: only marker files written by the collection script are translated
\* into "Missing on remote" records: every file collected from the server
\* that the walk has fingerprinted keeps a fingerprint record under its own
\* relative path, whatever its name, and every "Missing on remote" record
\* comes from a marker of the script.
C37_OnlyScriptMarkersTranslated ==
    mode = "walk" =>
        /\ \A k \in 1..visited :
              LET f == rootFiles[k] IN
              (~C37_WrittenByScript(f) /\ f.readable) =>
                  FileInfo(WalkServer, RelativePath(f.dir, f.base), f.sum, "")
                      \in manifest
        /\ \A e \in manifest :
              e.error = "Missing on remote" =>
                  \E k \in 1..visited :
                      /\ C37_WrittenByScript(rootFiles[k])
                      /\ OriginalPath(rootFiles[k]) = e.path

\* ---------------------------------------------------------------- C38
\* The worker is inside collectFromServer and its next step is step 6:
\* RemoveAll, MkdirAll and the extraction into files-<host>.
C38_AtExtraction(s) == pc[s] = "running" /\ stage[s] = "ArchiveDownloaded"

\* C38: collection workers are independent in what they write: a worker adds
\* manifest records only under the key of its own host, and for any
\* configured server list no two workers running at the same time remove,
\* create or write the same local extraction directory.
C38_WorkersWriteApart ==
    /\ [][mode = "collect" =>
            \A e \in manifest' \ manifest :
                \E s \in Servers :
                    /\ stage[s] = "Extracted" /\ stage'[s] # stage[s]
                    /\ e.server = cfgServers[s]]_vars
    /\ [](mode = "collect" =>
            \A s \in Servers, t \in Servers :
                (s # t /\ C38_AtExtraction(s) /\ C38_AtExtraction(t))
                    => cfgServers[s] # cfgServers[t])

\* ---------------------------------------------------------------- C39
\* The collectFromServer call of the server has returned after its Connect
\* had succeeded.
C39_ReturnedAfterConnect(s) ==
    pc[s] \in {"returned", "done"} /\ failedAt[s] # "connect"

\* C39: once Connect has succeeded, the remote session is closed on every
\* exit path of collectFromServer, and the local temporary script file and
\* the local temporary archive no longer exist when it returns.
C39_ClosedAndRemovedOnReturn ==
    mode = "collect" =>
        \A s \in Servers :
            C39_ReturnedAfterConnect(s) =>
                /\ ~resources[s].sshClient
                /\ ~resources[s].localScriptPath
                /\ ~resources[s].localTarPath
                /\ resources[s].deferred = <<>>

\* One call returned from a failed extraction, when it held the session and
\* both temporary files, and another returned after the last step.
C39_ReturnedFromTwoExits ==
    \E s \in Servers, t \in Servers :
        /\ C39_ReturnedAfterConnect(s) /\ failedAt[s] = "extract"
        /\ C39_ReturnedAfterConnect(t) /\ stage[t] = "CleanedUp"
        /\ C39_ClosedAndRemovedOnReturn

=========================================================================
